---- MODULE Spec2Model ----
(***************************************************************************)
(* Model of the kdcguide content-management backend.                       *)
(*                                                                         *)
(* The repository holds several builds of the same express server:         *)
(*   "dual"   the dual-backend server (src/unnamed/part_002): every store   *)
(*            call goes through the async query() shim, to Postgres or to  *)
(*            SQLite;                                                      *)
(*   "sqlite" the synchronous better-sqlite3 server (src/unnamed/part_000). *)
(* The variable `server` says which build a behaviour runs and             *)
(* `usePostgres` which backend the dual build selected.                    *)
(*                                                                         *)
(* The variables fall into groups, one per component; each specification   *)
(* below drives the groups its claims are about and leaves the others at   *)
(* their initial values.                                                   *)
(***************************************************************************)
EXTENDS Integers, Sequences, FiniteSets, TLC

VARIABLES
    \* ---- process and configuration ----
    server,       \* "dual" | "sqlite": the build that runs
    dbUrl,        \* "postgres" when DATABASE_URL names a Postgres server
    poolThrows,   \* environment: new Pool(...) throws
    pgUp,         \* environment: the Postgres server can be reached
    initialData,  \* the parsed initial-data.json
    usePostgres,  \* part_002:30 the backend flag of the dual build
    pool,         \* part_002:31
    sqliteDb,     \* part_002:32
    sessionBackend, \* part_002:204 the backend the session store is bound to
    bootPc,       \* where initDb is; "off" when the process is not running
    bootK,        \* seed rows initDb has inserted
    serving,      \* the express app takes requests
    schema,       \* the store holds the tables (CREATE TABLE has run on it)
    snap,         \* the store as the running process found it, until a request writes
    \* ---- the store (kept over restarts) ----
    settings,     \* settings table: key -> value, or Absent
    kind,         \* the collection table a behaviour looks at
    table,        \* its rows, in rowid order
    posts,        \* posts table
    nextId,       \* the id the next inserted post gets
    sessStore,    \* session table: sid -> the session is stored with isAdmin
    sessExpire,   \* session table: sid -> the expire column of the row
    faqs,         \* faqs table
    nextFaqId,    \* the id the next inserted FAQ gets
    settingRows,  \* settings table as its rows, in rowid order
    contactLinks, \* the value of the settings row 'contactLinks', a JSON text
    clock,        \* CURRENT_TIMESTAMP, in whole seconds
    \* ---- requests ----
    handlers,     \* the bulk-replace requests being handled
    logins,       \* the login requests being handled
    posting,      \* the POST /api/settings requests suspended at an await
    lastGet,      \* the answer of the collection GET handled by the last step
    resp,         \* the answer any other handler gave in the last step
    q,            \* the statement query() was last called with, and what it sent
    \* ---- history ----
    authed,       \* sid -> a login was answered success, no logout or expiry since
    sessCreated,  \* sid -> the time of that answer
    written,      \* settings key -> the value last written with an upsert
    savedLinks,   \* the contact-link list last saved through POST /api/settings
    populated,    \* the collection table has held a row at some time
    fetching,     \* App: the answers of GET /api/categories on their way to fetchData
    editingCategories, \* dashboard: the category list being edited
    addCount,     \* dashboard: categories added so far (bounds the model)
    saveReq,      \* dashboard: the requests sent to POST /api/categories/bulk
    req,          \* the requests made to mutating routes through the session middleware, one per slot
    pwSet         \* the adminPassword set through POST /api/settings, until a login reads the setting

confVars == <<server, dbUrl, poolThrows, pgUp, initialData>>
procVars == <<usePostgres, pool, sqliteDb, sessionBackend, bootPc, bootK, serving, schema>>
contentVars == <<faqs, nextFaqId, clock>>
linkVars == <<contactLinks, savedLinks, posting>>
editorVars == <<fetching, editingCategories, addCount, saveReq>>
clientVars == <<editorVars, req>>
rowVars == <<settingRows, written, q, linkVars, populated, clientVars>>
timeVars == <<sessExpire, sessCreated>>
storeVars == <<settings, kind, table, posts, nextId, sessStore, timeVars>>
reqVars == <<handlers, logins>>
vars == <<server, dbUrl, poolThrows, pgUp, initialData, usePostgres, pool,
          sqliteDb, sessionBackend, bootPc, bootK, serving, snap, settings, kind,
          table, posts, nextId, sessStore, sessExpire, sessCreated, faqs, nextFaqId, settingRows, clock,
          contactLinks, handlers, logins, lastGet, resp, q, authed, written,
          savedLinks, populated, pwSet, fetching, editingCategories, addCount, saveReq, req,
          schema, posting>>

(***************************************************************************)
(* Bounds and data domains                                                 *)
(***************************************************************************)
MaxItems == 2            \* longest collection a request submits
MaxPosts == 3            \* posts ever inserted

Null == "NULL"           \* a field missing from the request body
Absent == "ABSENT"       \* no such row / no such section
Undefined == "UNDEFINED" \* the key is not in the request body
Names == {"A", "B"}      \* category names / step titles
Orders == {1, 2}         \* display_order / step_order values
Kinds == {"categories", "training_process"}
Handlers == {1, 2}       \* requests the server handles at the same time
Sids == {"s1", "s2"}     \* session ids (the cookie a client holds)
Titles == {"T1", "T2"}   \* post titles

DefaultPassword == "comento0804"
Passwords == {DefaultPassword, "pw1"}
SettingKeys == {"siteName", "primaryColor", "adminPassword", "logoUrl", "contactInfo"}

Row == [name : Names, ord : Orders]
\* What a request may submit: a row, or an entry whose name is missing.
Entry == Row \cup {[name |-> Null, ord |-> 1]}

SeqsUpTo(S, n) == UNION {[1..m -> S] : m \in 0..n}

Bodies == SeqsUpTo(Entry, MaxItems)

\* initial-data.json: absent, or with any of its sections.
SeedRows == <<[name |-> "A", ord |-> 1], [name |-> "B", ord |-> 2]>>
SeedSettings ==
    [k \in SettingKeys |->
        CASE k = "siteName" -> "S1"
          [] k = "primaryColor" -> "P1"
          [] k = "logoUrl" -> "L1"
          [] k = "adminPassword" -> DefaultPassword
          [] k = "contactInfo" -> "C1"]
NoSettings == [k \in SettingKeys |-> Absent]
NoLinks == [given |-> FALSE, list |-> <<>>]      \* contactLinks is not in the body
\* A row of posts / of faqs: the columns the model keeps.
PostRow(id, title, at) == [id |-> id, title |-> title, updated_at |-> at]
FaqRow(id, question, at) == [id |-> id, question |-> question, updated_at |-> at]

\* The contactLinks entry of the settings section.
SeedLinks == <<[label |-> "chat", url |-> "u1", icon |-> "MessageCircle"]>>

\* rows: the section of the collection (<<>> when the file or the section
\* is missing, where the loop has nothing to insert); posts, faqs: the
\* titles and the questions of these sections; hasSettings: the file has a
\* settings section, with the five keys and, when links.given, contactLinks.
InitialDatas ==
    {[rows |-> r, posts |-> p, faqs |-> f, hasSettings |-> h,
      settings |-> IF h THEN SeedSettings ELSE NoSettings,
      links |-> IF h /\ l THEN [given |-> TRUE, list |-> SeedLinks] ELSE NoLinks] :
        r \in {<<>>, SeedRows}, p \in {<<>>, <<"T1">>}, f \in {<<>>, <<"Q1">>},
        h \in BOOLEAN, l \in BOOLEAN}
NoInitialData == [rows |-> <<>>, posts |-> <<>>, faqs |-> <<>>, hasSettings |-> FALSE,
                  settings |-> NoSettings, links |-> NoLinks]
NoSnap == [taken |-> FALSE, settings |-> NoSettings, table |-> <<>>]
NoGet == [phase |-> "none", rows |-> <<>>, h |-> 0]
NoRow == [id |-> 0, title |-> "", updated_at |-> 0]
NoBody == [k \in SettingKeys |-> Undefined]
IdleSave == [st |-> "none", body |-> <<>>, k |-> 0]
NoSave == [h \in Handlers |-> IdleSave]         \* no save request was sent
NoLinksRow == [present |-> FALSE, text |-> <<>>] \* no row 'contactLinks'
\* A POST /api/settings request that is not suspended; no such request in
\* flight.
IdlePost == [st |-> "idle", body |-> NoBody, links |-> NoLinks, k |-> 0, done |-> {}]
NoPost == [h \in Handlers |-> IdlePost]
NoResp == [op |-> "none", sid |-> "", status |-> 0, pw |-> "", seen |-> "",
           lastSet |-> "", id |-> 0, body |-> NoBody, err |-> "", changes |-> 0,
           row |-> NoRow, list |-> <<>>, stmt |-> {}, keys |-> {}]
NoQuery == [backend |-> "none", text |-> <<>>, params |-> <<>>, sent |-> <<>>,
            sentParams |-> <<>>]
Idle == [st |-> "idle", body |-> <<>>, k |-> 0, prior |-> <<>>, mixed |-> FALSE]
NoLogin == [pc |-> "idle", pw |-> "", seen |-> "", lastSet |-> ""]
\* A request that carries no session cookie; a slot with no request in it.
NoSid == "none"
IdleReq == [pc |-> "idle", sid |-> NoSid, isAdmin |-> FALSE, slot |-> 0, status |-> 0]
NoReq == [h \in Handlers |-> IdleReq]

(***************************************************************************)
(* The store                                                               *)
(***************************************************************************)
\* Mutant: the session store is bound to Postgres whatever initDatabase chose.
SessionStoreAlwaysPostgres(pg) == "postgres"

\* store: usePostgres ? new pgSession({ pool }) : new SqliteSessionStore(...),
\* evaluated when the module loads, after initDatabase() has returned.
SessionStoreFor(pg) == IF pg THEN "postgres" ELSE "sqlite"

\* query(): if (usePostgres && pool) the statement goes to the pool, in
\* every other case to the better-sqlite3 handle.
QueryBackend == IF usePostgres /\ pool # "null" THEN "postgres" ELSE "sqlite"

\* The backend the process talks to can be reached.
Reachable == ~usePostgres \/ pgUp

\* The backend answers a statement on the application's tables: it can be
\* reached and the tables exist.
StoreUp == Reachable /\ schema

\* CREATE TABLE categories (name TEXT NOT NULL UNIQUE, display_order ...),
\* CREATE TABLE training_process (title TEXT NOT NULL, ...): whether the
\* INSERT of entry e into rows t succeeds.
InsertOk(kd, t, e) ==
    /\ e.name # Null
    /\ kd = "categories" => \A i \in 1..Len(t) : t[i].name # e.name

\* A table the schema allows.
ValidTable(kd, t) ==
    /\ \A i \in 1..Len(t) : t[i].name # Null
    /\ kd = "categories" =>
          \A i, j \in 1..Len(t) : i # j => t[i].name # t[j].name

\* The for-loop of inserts, run from entry k+1 of body on rows t until the
\* first failing INSERT: the rows then, the inserts done, and whether all
\* of them succeeded.
RECURSIVE RunInserts(_, _, _, _)
RunInserts(kd, t, body, k) ==
    IF k >= Len(body) THEN [rows |-> t, done |-> k, ok |-> TRUE]
    ELSE IF InsertOk(kd, t, body[k + 1])
         THEN RunInserts(kd, Append(t, body[k + 1]), body, k + 1)
         ELSE [rows |-> t, done |-> k, ok |-> FALSE]

\* SELECT * FROM <table> ORDER BY <order column> ASC: every ordering of the
\* rows that is ascending in the order column (SQL leaves the order of rows
\* with equal keys open).
Injections(n) == {f \in [1..n -> 1..n] : \A i, j \in 1..n : i # j => f[i] # f[j]}

\* Mutant: the ORDER BY clause is dropped, the rows come in rowid order.
SelectRowidOrder(t) == {t}

SelectOrdered(t) ==
    {[i \in 1..Len(t) |-> t[f[i]]] : f \in
        {g \in Injections(Len(t)) :
            \A i, j \in 1..Len(t) : i < j => t[g[i]].ord <= t[g[j]].ord}}

\* INSERT OR REPLACE INTO settings (key, value), which query() rewrites for
\* Postgres to INSERT ... ON CONFLICT (key) DO UPDATE: one row per key.
Upsert(st, key, value) == [st EXCEPT ![key] = value]

\* SELECT COUNT(*) FROM settings
SettingsCount(st) == Cardinality({k \in SettingKeys : st[k] # Absent})

(***************************************************************************)
(* Bulk replace: POST /api/categories/bulk, POST /api/training-process     *)
(***************************************************************************)
\* The requests as request h's step finds them: a request answered earlier
\* is forgotten (its slot is free again).
Settled(h) ==
    [g \in Handlers |->
        IF g # h /\ handlers[g].st \in {"ok", "failed"} THEN Idle ELSE handlers[g]]

\* Request h writes the table: every other request in flight has now seen a
\* foreign write, and what the table held before it no longer matters.
MarkOthers(h) ==
    [g \in Handlers |->
        IF g # h /\ Settled(h)[g].st = "run"
        THEN [Settled(h)[g] EXCEPT !.mixed = TRUE, !.prior = <<>>]
        ELSE Settled(h)[g]]

\* The request a handler's step belongs to, when the request came through
\* the session middleware (SessionLoad): the handler's step moves it on, to
\* its next statement, to its answer, or to its end without an answer.
RequestServed ==
    \/ req' = req
    \/ \E h \in Handlers :
          /\ req[h].pc \in {"loaded", "bulk", "upserts"}
          /\ \E pc \in {"bulk", "upserts", "handled", "done"}, g \in Handlers \cup {0},
                st \in {0, 200, 500} :
                req' = [req EXCEPT ![h].pc = pc, ![h].slot = g, ![h].status = st]

\* What a step of a bulk handler leaves alone.
BulkFrame ==
    /\ lastGet' = NoGet
    /\ resp' = NoResp
    /\ populated' = (populated \/ Len(table') > 0)
    /\ UNCHANGED <<confVars, procVars, settings, kind, posts, nextId, sessStore, timeVars,
                   logins, authed, pwSet, contentVars, settingRows, written, q,
                   linkVars, editorVars>>
    /\ RequestServed

\* Dual build on Postgres: the request arrives and its DELETE executes.
\* pool.query is real I/O, so the handler is suspended at every await and
\* other requests run in between.
DualBulkDelete(h, body) ==
    /\ server = "dual" /\ usePostgres /\ serving /\ StoreUp
    /\ handlers[h].st # "run"
    /\ handlers' = [MarkOthers(h) EXCEPT ![h] =
           [st |-> "run", body |-> body, k |-> 0, prior |-> table, mixed |-> FALSE]]
    /\ table' = <<>>
    /\ snap' = NoSnap
    /\ BulkFrame

\* Dual build on Postgres: the next INSERT of the loop executes; a failing
\* one makes query() rethrow, the handler's promise rejects and nothing
\* later in the handler runs.
DualBulkInsert(h) ==
    /\ server = "dual" /\ usePostgres /\ serving /\ StoreUp
    /\ handlers[h].st = "run"
    /\ handlers[h].k < Len(handlers[h].body)
    /\ LET e == handlers[h].body[handlers[h].k + 1] IN
         IF InsertOk(kind, table, e)
         THEN /\ table' = Append(table, e)
              /\ handlers' = [MarkOthers(h) EXCEPT ![h].k = @ + 1]
         ELSE /\ table' = table
              /\ handlers' = [Settled(h) EXCEPT ![h].st = "failed"]
    /\ snap' = NoSnap
    /\ BulkFrame

\* Dual build on Postgres: the loop is over, res.json({ success: true }).
DualBulkRespond(h) ==
    /\ server = "dual" /\ usePostgres /\ serving
    /\ handlers[h].st = "run"
    /\ handlers[h].k = Len(handlers[h].body)
    /\ handlers' = [Settled(h) EXCEPT ![h].st = "ok"]
    /\ UNCHANGED <<table, snap>>
    /\ BulkFrame

\* Dual build on SQLite: query() runs better-sqlite3 synchronously, so each
\* await resumes in a microtask and the handler runs from the DELETE to its
\* response (or to the failing INSERT) before any other request is handled.
DualBulkSync(h, body) ==
    /\ server = "dual" /\ ~usePostgres /\ serving
    /\ handlers[h].st # "run"
    /\ LET r == RunInserts(kind, <<>>, body, 0) IN
         /\ table' = r.rows
         /\ handlers' = [MarkOthers(h) EXCEPT ![h] =
                [st |-> IF r.ok THEN "ok" ELSE "failed", body |-> body,
                 k |-> r.done, prior |-> table, mixed |-> FALSE]]
    /\ snap' = NoSnap
    /\ BulkFrame

\* A handler that would give the event loop back after its DELETE and run
\* its inserts in a later turn (what the synchronous handler does not do).
SqliteBulkYields(h, body) ==
    /\ server = "sqlite" /\ serving
    /\ handlers[h].st # "run"
    /\ handlers' = [MarkOthers(h) EXCEPT ![h] =
           [st |-> "run", body |-> body, k |-> 0, prior |-> table, mixed |-> FALSE]]
    /\ table' = <<>>
    /\ snap' = NoSnap
    /\ BulkFrame

\* Synchronous build: the DELETE runs on its own, then the inserts inside
\* db.transaction(): a failing INSERT rolls the inserts back, not the
\* DELETE, and the request is answered 500.
SqliteBulk(h, body) ==
    /\ server = "sqlite" /\ serving
    /\ handlers[h].st # "run"
    /\ LET r == RunInserts(kind, <<>>, body, 0) IN
         /\ table' = IF r.ok THEN r.rows ELSE <<>>
         /\ handlers' = [MarkOthers(h) EXCEPT ![h] =
                [st |-> IF r.ok THEN "ok" ELSE "failed", body |-> body,
                 k |-> IF r.ok THEN r.done ELSE 0, prior |-> table, mixed |-> FALSE]]
    /\ snap' = NoSnap
    /\ BulkFrame

\* A request that is no bulk replace writes the table: the bulk requests
\* answered earlier are forgotten and those in flight have seen a foreign
\* write.
ForeignWrite ==
    [g \in Handlers |->
        IF handlers[g].st \in {"ok", "failed"} THEN Idle
        ELSE IF handlers[g].st = "run"
             THEN [handlers[g] EXCEPT !.mixed = TRUE, !.prior = <<>>]
             ELSE handlers[g]]

\* What a step of a single-row category route leaves alone.
RowFrame ==
    /\ lastGet' = NoGet
    /\ snap' = NoSnap
    /\ populated' = (populated \/ Len(table') > 0)
    /\ UNCHANGED <<confVars, procVars, settings, kind, posts, nextId, sessStore, timeVars,
                   logins, authed, pwSet, contentVars, settingRows, written, q,
                   linkVars, editorVars>>
    /\ RequestServed

\* POST /api/categories: one INSERT of req.body.name, req.body.display_order.
\* A failing INSERT (no name, or a name the table holds) throws: the
\* synchronous build's handler has no try/catch and express answers 500, the
\* dual build's async handler rejects and the request gets no answer.
AddCategory(e) ==
    /\ serving /\ StoreUp
    /\ kind = "categories"
    /\ LET ok == InsertOk(kind, table, e) IN
         /\ table' = IF ok THEN Append(table, e) ELSE table
         /\ handlers' = IF ok THEN ForeignWrite ELSE handlers
         /\ resp' = [NoResp EXCEPT !.op = "addCategory",
                       !.status = IF ok THEN 200 ELSE IF server = "sqlite" THEN 500 ELSE 0]
    /\ RowFrame

\* The table without its i-th row.
WithoutRow(t, i) == [j \in 1..(Len(t) - 1) |-> IF j < i THEN t[j] ELSE t[j + 1]]

\* DELETE /api/categories/:id: DELETE FROM categories WHERE id = ?. The id
\* of the request is the id of the i-th row of the table, or (i = 0) an id
\* that no row has; the answer is success either way, with the number of
\* rows deleted in the synchronous build.
DeleteCategory(i) ==
    /\ serving /\ StoreUp
    /\ kind = "categories"
    /\ i \in 0..Len(table)
    /\ table' = IF i = 0 THEN table ELSE WithoutRow(table, i)
    /\ handlers' = IF i = 0 THEN handlers ELSE ForeignWrite
    /\ resp' = [NoResp EXCEPT !.op = "deleteCategory", !.status = 200, !.id = i,
                  !.changes = IF i > 0 /\ server = "sqlite" THEN 1 ELSE 0]
    /\ RowFrame

\* GET /api/categories, GET /api/training-process: one SELECT ... ORDER BY.
\* The answer is tagged with the bulk request it relates to: one in flight
\* ("during"), or the last one answered with success ("after"), when no
\* other request wrote the table since that request started.
Running == {h \in Handlers : handlers[h].st = "run"}
CleanOk == {h \in Handlers : handlers[h].st = "ok" /\ ~handlers[h].mixed}

GetCollection ==
    /\ serving /\ StoreUp
    /\ \E rows \in SelectOrdered(table) :
         lastGet' =
            IF \E h \in Running : Running = {h} /\ ~handlers[h].mixed
            THEN [phase |-> "during", rows |-> rows, h |-> CHOOSE h \in Running : TRUE]
            ELSE IF Running = {} /\ CleanOk # {}
            THEN [phase |-> "after", rows |-> rows, h |-> CHOOSE h \in CleanOk : TRUE]
            ELSE [phase |-> "other", rows |-> rows, h |-> 0]
    /\ resp' = NoResp
    /\ UNCHANGED <<confVars, procVars, storeVars, reqVars, snap, authed, pwSet,
                   contentVars, rowVars>>

(***************************************************************************)
(* Specification of the collection routes                                  *)
(***************************************************************************)
\* A process that has started and serves, its bootstrap over.
Started ==
    /\ server \in {"dual", "sqlite"}
    /\ dbUrl \in {"none", "postgres"}
    /\ server = "sqlite" => dbUrl = "none"
    /\ poolThrows = FALSE
    /\ pgUp = TRUE
    /\ initialData = NoInitialData
    /\ usePostgres = (dbUrl = "postgres")
    /\ pool = IF usePostgres THEN "pool" ELSE "null"
    /\ sqliteDb = IF usePostgres THEN "null" ELSE "open"
    /\ sessionBackend = SessionStoreFor(usePostgres)
    /\ bootPc = "done"
    /\ bootK = 0
    /\ serving = TRUE
    /\ schema = TRUE
    /\ snap = NoSnap

\* Object.entries(initialData.settings), in the file's key order; a
\* contactLinks entry comes last.
SeedKeys == <<"siteName", "primaryColor", "adminPassword", "logoUrl", "contactInfo">>

SettingRow(key, value) == [key |-> key, value |-> value]

\* The rows of the settings table that holds st, one per key with a value.
RowsOf(st) ==
    LET ks == SelectSeq(SeedKeys, LAMBDA k : st[k] # Absent)
    IN  [i \in 1..Len(ks) |-> SettingRow(ks[i], st[ks[i]])]

QuietRequests ==
    /\ handlers = [h \in Handlers |-> Idle]
    /\ logins = [s \in Sids |-> NoLogin]
    /\ lastGet = NoGet
    /\ resp = NoResp
    /\ authed = [s \in Sids |-> FALSE]
    /\ sessExpire = [s \in Sids |-> 0]
    /\ sessCreated = [s \in Sids |-> 0]
    /\ pwSet = Absent
    /\ faqs = {}
    /\ nextFaqId = 1
    /\ clock = 0
    /\ q = NoQuery
    /\ contactLinks = NoLinksRow
    /\ savedLinks = NoLinks
    /\ posting = NoPost
    /\ fetching = {}
    /\ editingCategories = <<>>
    /\ addCount = 0
    /\ saveReq = NoSave
    /\ req = NoReq

InitBulk ==
    /\ Started
    /\ QuietRequests
    /\ settings = Upsert(NoSettings, "adminPassword", DefaultPassword)
    /\ settingRows = RowsOf(settings)
    /\ written = settings
    /\ kind \in Kinds
    /\ table \in {t \in SeqsUpTo(Row, MaxItems) : ValidTable(kind, t)}
    /\ populated = (Len(table) > 0)
    /\ posts = {}
    /\ nextId = 1
    /\ sessStore = [s \in Sids |-> FALSE]

\* One bulk-replace request at a time, with reads at any moment.
NextBulk ==
    \/ \E body \in Bodies : DualBulkDelete(1, body)
    \/ DualBulkInsert(1)
    \/ DualBulkRespond(1)
    \/ \E body \in Bodies : DualBulkSync(1, body)
    \/ \E body \in Bodies : SqliteBulk(1, body)
    \/ GetCollection
    \/ \E e \in Entry : AddCategory(e)
    \/ \E i \in 0..MaxItems : DeleteCategory(i)

SpecBulk == InitBulk /\ [][NextBulk]_vars

(***************************************************************************)
(* Settings: POST /api/settings                                            *)
(***************************************************************************)
\* if (value): the value is defined and not the empty string.
Truthy(v) == v # Undefined /\ v # ""

SettingsBodies ==
    [siteName : {Undefined, "", "S1"},
     primaryColor : {Undefined, "", "P1"},
     adminPassword : {Undefined, ""} \cup Passwords,
     logoUrl : {Undefined, "", "L1"},
     contactInfo : {Undefined, "", "C1"}]

\* Requests that set the admin password (any value, the empty string
\* included), the site name, or the site name and the default password.
FormBodies ==
    {b \in [siteName : {Undefined, "S1"},
            primaryColor : {Undefined},
            adminPassword : {Undefined, ""} \cup Passwords,
            logoUrl : {Undefined},
            contactInfo : {Undefined}] :
        b["siteName"] = "S1" => b["adminPassword"] \in {Undefined, DefaultPassword}}

\* ---- contactLinks: a list of links kept as one JSON text ----
MaxLinks == 2            \* longest contact-link list a request submits

Links == [label : {"chat", "mail"}, url : {"u1", "u2"}, icon : {"MessageCircle"}]
LinkLists == SeqsUpTo(Links, MaxLinks)
\* What the body holds under contactLinks: nothing, or a list.
LinkBodies == {NoLinks} \cup {[given |-> TRUE, list |-> l] : l \in LinkLists}

\* A JSON text as its tokens: punctuation, or a string literal.
Punct(c) == [t |-> c, v |-> ""]
Str(x) == [t |-> "str", v |-> x]

\* JSON.stringify of one link: {"label":..,"url":..,"icon":..}.
StringifyLink(l) ==
    <<Punct("{"), Str("label"), Punct(":"), Str(l.label), Punct(","),
      Str("url"), Punct(":"), Str(l.url), Punct(","),
      Str("icon"), Punct(":"), Str(l.icon), Punct("}")>>

RECURSIVE StringifyItems(_)
StringifyItems(list) ==
    IF Len(list) = 0 THEN <<>>
    ELSE IF Len(list) = 1 THEN StringifyLink(list[1])
    ELSE StringifyLink(list[1]) \o <<Punct(",")>> \o StringifyItems(Tail(list))

\* JSON.stringify(contactLinks).
Stringify(list) == <<Punct("[")>> \o StringifyItems(list) \o <<Punct("]")>>

\* JSON.parse, an object that starts at token o: the value of a key is the
\* literal after the colon that follows the key.
MemberValue(text, o, key) ==
    LET j == CHOOSE j \in {o + 1, o + 5, o + 9} : text[j] = Str(key)
    IN  text[j + 2].v

ParseLink(text, o) ==
    [label |-> MemberValue(text, o, "label"),
     url |-> MemberValue(text, o, "url"),
     icon |-> MemberValue(text, o, "icon")]

\* JSON.parse of an array text: its elements from the left, each an object
\* of 13 tokens, a comma between two of them.
RECURSIVE ParseItems(_, _)
ParseItems(text, o) ==
    IF text[o] = Punct("]") THEN <<>>
    ELSE IF text[o] = Punct(",") THEN ParseItems(text, o + 1)
    ELSE <<ParseLink(text, o)>> \o ParseItems(text, o + 13)

Parse(text) == ParseItems(text, 2)

\* Mutant: the list is stored only when it has an element.
LinksStoredWhenNonEmpty(row, links) ==
    IF links.given /\ Len(links.list) > 0
    THEN [present |-> TRUE, text |-> Stringify(links.list)]
    ELSE row

\* if (contactLinks !== undefined)
\*     upsert("contactLinks", JSON.stringify(contactLinks))
LinksAfterPost(row, links) ==
    IF links.given
    THEN [present |-> TRUE, text |-> Stringify(links.list)]
    ELSE row

\* Mutant: the body replaces the settings, a key it omits loses its row.
SettingsReplacedByPost(st, body) ==
    [k \in SettingKeys |-> IF body[k] = Undefined THEN Absent ELSE body[k]]

\* Mutant: every key of the body that is defined is upserted, the empty
\* string included.
SettingsUpsertDefined(st, body) ==
    [k \in SettingKeys |-> IF body[k] # Undefined THEN body[k] ELSE st[k]]

\* The upserts a handler run does of the keys of body, in the handler's
\* order: siteName, primaryColor, adminPassword and logoUrl when truthy,
\* contactInfo when defined.
SettingsAfterPost(st, body) ==
    LET s1 == IF Truthy(body["siteName"])
              THEN Upsert(st, "siteName", body["siteName"]) ELSE st
        s2 == IF Truthy(body["primaryColor"])
              THEN Upsert(s1, "primaryColor", body["primaryColor"]) ELSE s1
        s3 == IF Truthy(body["adminPassword"])
              THEN Upsert(s2, "adminPassword", body["adminPassword"]) ELSE s2
        s4 == IF Truthy(body["logoUrl"])
              THEN Upsert(s3, "logoUrl", body["logoUrl"]) ELSE s3
    IN  IF body["contactInfo"] # Undefined
        THEN Upsert(s4, "contactInfo", body["contactInfo"]) ELSE s4

\* The keys in the order of the handler's six `if` statements.
PostKeys == <<"siteName", "primaryColor", "adminPassword", "logoUrl", "contactInfo",
              "contactLinks">>

\* Whether the handler's j-th `if` calls upsert.
Upserts(body, links, j) ==
    IF j = 6 THEN links.given
    ELSE IF j = 5 THEN body["contactInfo"] # Undefined
    ELSE Truthy(body[PostKeys[j]])

\* The first `if` from the j-th on that calls upsert; 7 when none does.
NextUpsert(body, links, j) ==
    IF \E i \in j..6 : Upserts(body, links, i)
    THEN CHOOSE i \in j..6 :
             Upserts(body, links, i) /\ \A m \in j..(i - 1) : ~Upserts(body, links, m)
    ELSE 7

\* The part of the request that the j-th `if` looks at.
OnlyKey(body, j) ==
    IF j = 6 THEN NoBody ELSE [NoBody EXCEPT ![PostKeys[j]] = body[PostKeys[j]]]
OnlyLinks(links, j) == IF j = 6 THEN links ELSE NoLinks

\* The statements of the handler for body and links execute.
WriteSettings(body, links) ==
    /\ settings' = SettingsAfterPost(settings, body)
    /\ contactLinks' = LinksAfterPost(contactLinks, links)
    /\ savedLinks' = IF links.given THEN links ELSE savedLinks
    /\ pwSet' = IF Truthy(body["adminPassword"]) THEN body["adminPassword"] ELSE pwSet

SettingsFrame ==
    /\ snap' = NoSnap
    /\ lastGet' = NoGet
    /\ UNCHANGED <<confVars, procVars, kind, table, posts, nextId, sessStore, timeVars,
                   reqVars, authed, contentVars, settingRows, written, q, populated, editorVars>>
    /\ RequestServed

\* The keys whose `if` calls upsert, among the handler's six.
UpsertKeys(body, links) == {PostKeys[i] : i \in {m \in 1..6 : Upserts(body, links, m)}}

\* What the model records of a step of a settings request: the body, the
\* keys whose statement ran in this step (stmt) and since the request
\* arrived (keys); status 200 once res.json is reached, 0 before.
SettingsResp(op, status, body, stmt, keys) ==
    [NoResp EXCEPT !.op = op, !.status = status, !.body = body, !.stmt = stmt,
                   !.keys = keys]

\* POST /api/settings arrives. On SQLite (either build) every upsert runs
\* synchronously and the request is answered in the same turn. On Postgres
\* each `await upsert(...)` is real I/O: the first statement executes and,
\* when more are to follow, the handler is suspended at h; other requests,
\* settings requests included, are handled before PostSettingsNext(h) goes
\* on. The request is answered after its last statement.
PostSettings(body, links) ==
    /\ serving /\ StoreUp
    /\ LET j == NextUpsert(body, links, 1) IN
         IF usePostgres /\ j <= 6 /\ NextUpsert(body, links, j + 1) <= 6
         THEN /\ \E h \in Handlers : posting[h].st = "idle"
              /\ LET h == CHOOSE g \in Handlers : posting[g].st = "idle" IN
                   posting' = [posting EXCEPT ![h] =
                                  [st |-> "run", body |-> body, links |-> links,
                                   k |-> j + 1, done |-> {PostKeys[j]}]]
              /\ WriteSettings(OnlyKey(body, j), OnlyLinks(links, j))
              /\ resp' = SettingsResp("upsertSettings", 0, body,
                                      {PostKeys[j]}, {PostKeys[j]})
         ELSE /\ WriteSettings(body, links)
              /\ UNCHANGED posting
              /\ resp' = SettingsResp("postSettings", 200, body,
                                      UpsertKeys(body, links), UpsertKeys(body, links))
    /\ SettingsFrame

\* Postgres: the next upsert of the handler suspended at h executes; after
\* the last one res.json({ success: true }).
PostSettingsNext(h) ==
    /\ serving /\ StoreUp
    /\ posting[h].st = "run"
    /\ LET p == posting[h]
           j == NextUpsert(p.body, p.links, p.k)
       IN  /\ WriteSettings(OnlyKey(p.body, j), OnlyLinks(p.links, j))
           /\ IF NextUpsert(p.body, p.links, j + 1) <= 6
              THEN /\ posting' = [posting EXCEPT ![h] =
                                     [p EXCEPT !.k = j + 1,
                                               !.done = p.done \cup {PostKeys[j]}]]
                   /\ resp' = SettingsResp("upsertSettings", 0, p.body,
                                           {PostKeys[j]}, p.done \cup {PostKeys[j]})
              ELSE /\ posting' = [posting EXCEPT ![h] = IdlePost]
                   /\ resp' = SettingsResp("postSettings", 200, p.body,
                                           {PostKeys[j]}, p.done \cup {PostKeys[j]})
    /\ SettingsFrame

(***************************************************************************)
(* Sessions: POST /api/admin/login, GET /api/admin/check,                  *)
(*           POST /api/admin/logout                                        *)
(***************************************************************************)
LoginPasswords == Passwords \cup {""}

\* setting?.value || "comento0804"
Expected(seen) == IF seen = Absent \/ seen = "" THEN DefaultPassword ELSE seen

LoginResp(s, status, pw, seen, lastSet) ==
    [NoResp EXCEPT !.op = "login", !.sid = s, !.status = status, !.pw = pw,
                   !.seen = seen, !.lastSet = lastSet]

AuthFrame ==
    /\ lastGet' = NoGet
    /\ UNCHANGED <<confVars, procVars, settings, kind, table, posts, nextId,
                   handlers, snap, contentVars, rowVars>>

\* cookie: { maxAge: 24 * 60 * 60 * 1000 }, in ticks of the clock: the
\* session specification takes a tick for 24 hours.
SessionTtl == 1

\* store.get(sid): the row counts while its expire column is not in the past.
Valid(s) == sessStore[s] /\ clock <= sessExpire[s]

\* store.set(sid, session): the row is written with expire = now + maxAge.
Saved(s, ok) == IF ok THEN [sessExpire EXCEPT ![s] = clock + SessionTtl] ELSE sessExpire

\* A request that finds its session in the store and does not modify it:
\* express-session resets the session's maxAge and, resave being false,
\* calls store.touch, which moves the row's expire column to now + maxAge.
Touched(s) == IF Valid(s) THEN [sessExpire EXCEPT ![s] = clock + SessionTtl] ELSE sessExpire

\* Mutant: the session is marked and stored before the password is compared.
LoginRequestEager(s, pw) ==
    /\ server = "dual" /\ serving /\ StoreUp
    /\ logins[s].pc = "idle"
    /\ sessStore' = [sessStore EXCEPT ![s] = TRUE]
    /\ sessExpire' = Saved(s, TRUE)
    /\ sessCreated' = [sessCreated EXCEPT ![s] = clock]
    /\ resp' = LoginResp(s, IF pw = Expected(settings["adminPassword"]) THEN 200 ELSE 401,
                         pw, settings["adminPassword"], pwSet)
    /\ authed' = [authed EXCEPT ![s] = pw = Expected(settings["adminPassword"])]
    /\ pwSet' = Absent
    /\ UNCHANGED logins
    /\ AuthFrame

\* Mutant: the flag is kept once for the process instead of in the
\* request's session, so a successful login marks every session.
LoginRequestShared(s, pw) ==
    /\ server = "dual" /\ serving /\ StoreUp
    /\ logins[s].pc = "idle"
    /\ LET seen == settings["adminPassword"] IN
         IF pw # Expected(seen)
         THEN /\ resp' = LoginResp(s, 401, pw, seen, pwSet)
              /\ sessExpire' = Touched(s)
              /\ UNCHANGED <<sessStore, logins, authed, sessCreated>>
         ELSE /\ sessStore' = [t \in Sids |-> TRUE]
              /\ sessExpire' = [t \in Sids |-> clock + SessionTtl]
              /\ resp' = LoginResp(s, 200, pw, seen, pwSet)
              /\ authed' = [authed EXCEPT ![s] = TRUE]
              /\ sessCreated' = [sessCreated EXCEPT ![s] = clock]
              /\ UNCHANGED logins
    /\ pwSet' = Absent
    /\ AuthFrame

\* The request arrives on session s (express-session has loaded it), the
\* SELECT of the adminPassword row executes and the password is compared.
\* A mismatch is answered 401. On a match isAdmin is set and
\* req.session.save() is called: connect-pg-simple stores the session with
\* a pool query (the handler's callback runs later, LoginSaved), the SQLite
\* store runs its statement at once. The callback answers success whether
\* or not the store reported an error.
LoginRequest(s, pw) ==
    /\ server = "dual" /\ serving /\ StoreUp
    /\ logins[s].pc = "idle"
    /\ LET seen == settings["adminPassword"] IN
         IF pw # Expected(seen)
         THEN /\ resp' = LoginResp(s, 401, pw, seen, pwSet)
              /\ sessExpire' = Touched(s)
              /\ UNCHANGED <<sessStore, logins, authed, sessCreated>>
         ELSE IF usePostgres
         THEN /\ logins' = [logins EXCEPT ![s] =
                     [pc |-> "saving", pw |-> pw, seen |-> seen, lastSet |-> pwSet]]
              /\ resp' = NoResp
              /\ UNCHANGED <<sessStore, authed, timeVars>>
         ELSE /\ \E ok \in BOOLEAN :
                     /\ sessStore' = IF ok THEN [sessStore EXCEPT ![s] = TRUE] ELSE sessStore
                     /\ sessExpire' = Saved(s, ok)
              /\ resp' = LoginResp(s, 200, pw, seen, pwSet)
              /\ authed' = [authed EXCEPT ![s] = TRUE]
              /\ sessCreated' = [sessCreated EXCEPT ![s] = clock]
              /\ UNCHANGED logins
    /\ pwSet' = Absent
    /\ AuthFrame

\* Postgres: the session store's query has ended, with the row written (ok)
\* or with an error; req.session.save's callback answers success.
LoginSaved(s, ok) ==
    /\ server = "dual" /\ usePostgres /\ serving
    /\ logins[s].pc = "saving"
    /\ ok => StoreUp
    /\ sessStore' = IF ok THEN [sessStore EXCEPT ![s] = TRUE] ELSE sessStore
    /\ sessExpire' = Saved(s, ok)
    /\ resp' = LoginResp(s, 200, logins[s].pw, logins[s].seen, logins[s].lastSet)
    /\ authed' = [authed EXCEPT ![s] = TRUE]
    /\ sessCreated' = [sessCreated EXCEPT ![s] = clock]
    /\ logins' = [logins EXCEPT ![s] = NoLogin]
    /\ UNCHANGED pwSet
    /\ AuthFrame

\* Synchronous build: setting ? setting.value : "comento0804", the stored
\* value whenever there is a row, the empty string included.
SqliteExpected(seen) == IF seen = Absent THEN DefaultPassword ELSE seen

\* Synchronous build, POST /api/admin/login: the SELECT and the comparison
\* as in the dual build, with SqliteExpected; on a match isAdmin is set and
\* req.session.save() runs the store's statement at once. When the store
\* reports an error the callback answers 500 and no session row is written.
SqliteLogin(s, pw, ok) ==
    /\ server = "sqlite" /\ serving /\ StoreUp
    /\ LET seen == settings["adminPassword"] IN
         IF pw # SqliteExpected(seen)
         THEN /\ ok
              /\ resp' = LoginResp(s, 401, pw, seen, pwSet)
              /\ sessExpire' = Touched(s)
              /\ UNCHANGED <<sessStore, authed, sessCreated>>
         ELSE IF ok
         THEN /\ sessStore' = [sessStore EXCEPT ![s] = TRUE]
              /\ sessExpire' = Saved(s, TRUE)
              /\ resp' = LoginResp(s, 200, pw, seen, pwSet)
              /\ authed' = [authed EXCEPT ![s] = TRUE]
              /\ sessCreated' = [sessCreated EXCEPT ![s] = clock]
         ELSE /\ resp' = LoginResp(s, 500, pw, seen, pwSet)
              /\ UNCHANGED <<sessStore, authed, timeVars>>
    /\ pwSet' = Absent
    /\ UNCHANGED logins
    /\ AuthFrame

\* GET /api/admin/check (both builds): req.session is what the store holds
\* for the sid; the session is not modified, so the store is touched.
Check(s) ==
    /\ serving /\ StoreUp
    /\ resp' = [NoResp EXCEPT !.op = "check", !.sid = s,
                              !.status = IF Valid(s) THEN 200 ELSE 401]
    /\ sessExpire' = Touched(s)
    /\ UNCHANGED <<sessStore, logins, authed, sessCreated, pwSet>>
    /\ AuthFrame

\* POST /api/admin/logout (both builds): req.session.destroy removes the
\* row (ok) or the store reports an error; the callback ignores it and
\* answers success.
Logout(s, ok) ==
    /\ serving
    /\ ok => StoreUp
    /\ sessStore' = IF ok THEN [sessStore EXCEPT ![s] = FALSE] ELSE sessStore
    /\ sessExpire' = IF ok THEN [sessExpire EXCEPT ![s] = 0] ELSE sessExpire
    /\ resp' = [NoResp EXCEPT !.op = "logout", !.sid = s, !.status = 200]
    /\ authed' = [authed EXCEPT ![s] = FALSE]
    /\ sessCreated' = [sessCreated EXCEPT ![s] = 0]
    /\ UNCHANGED <<logins, pwSet>>
    /\ AuthFrame

\* The session's time-to-live is over: the store drops the row and the
\* client's cookie lapses.
Expire(s) ==
    /\ sessStore[s] \/ authed[s]
    /\ sessStore' = [sessStore EXCEPT ![s] = FALSE]
    /\ sessExpire' = [sessExpire EXCEPT ![s] = 0]
    /\ authed' = [authed EXCEPT ![s] = FALSE]
    /\ sessCreated' = [sessCreated EXCEPT ![s] = 0]
    /\ resp' = NoResp
    /\ UNCHANGED <<logins, pwSet>>
    /\ AuthFrame

InitAuth ==
    /\ Started
    /\ QuietRequests
    /\ settings \in {NoSettings, Upsert(NoSettings, "adminPassword", DefaultPassword)}
    /\ settingRows = RowsOf(settings)
    /\ written = settings
    /\ kind = "categories"
    /\ table = <<>>
    /\ populated = (Len(table) > 0)
    /\ posts = {}
    /\ nextId = 1
    /\ sessStore = [s \in Sids |-> FALSE]

NextAuth ==
    \/ \E s \in Sids, pw \in LoginPasswords : LoginRequest(s, pw)
    \/ \E s \in Sids, ok \in BOOLEAN : LoginSaved(s, ok)
    \/ \E s \in Sids, pw \in LoginPasswords, ok \in BOOLEAN : SqliteLogin(s, pw, ok)
    \/ \E s \in Sids : Check(s)
    \/ \E s \in Sids, ok \in BOOLEAN : Logout(s, ok)
    \/ \E s \in Sids : Expire(s)
    \/ \E body \in FormBodies : PostSettings(body, NoLinks)
    \/ \E h \in Handlers : PostSettingsNext(h)

SpecAuth == InitAuth /\ [][NextAuth]_vars

(***************************************************************************)
(* Process start: initDatabase, initDb (bootstrap), listen                 *)
(***************************************************************************)

\* The entries of the settings section.
SeedEntries(data) == Len(SeedKeys) + IF data.links.given THEN 1 ELSE 0

\* SELECT COUNT(*) FROM settings: the rows of the five keys and the
\* contactLinks row.
SettingsRows(st, row) == SettingsCount(st) + IF row.present THEN 1 ELSE 0

\* typeof value === "object" ? JSON.stringify(value) : String(value), for
\* the contactLinks entry.
SeedLinksRow(data) == [present |-> TRUE, text |-> Stringify(data.links.list)]

\* Seeding of a collection table: when SELECT COUNT(*) is 0 and the seed
\* payload has the section, its rows are inserted in order.
BootRows(kd, t, data) ==
    IF Len(t) = 0 /\ Len(data.rows) > 0
    THEN RunInserts(kd, t, data.rows, 0).rows
    ELSE t

\* Seeding of posts and of faqs: when the table is empty the entries of the
\* section are inserted in order, with the next identifiers.
BootPosts(ps, id, at, data) ==
    IF ps = {} THEN {PostRow(id + i - 1, data.posts[i], at) : i \in 1..Len(data.posts)}
    ELSE ps
BootFaqs(fs, id, at, data) ==
    IF fs = {} THEN {FaqRow(id + i - 1, data.faqs[i], at) : i \in 1..Len(data.faqs)}
    ELSE fs

\* Seeding of settings: when the table is empty and the payload has a
\* settings section every entry is inserted; in every other case the else
\* branch writes adminPassword = 'comento0804'.
SeedsSettings(st, row, data) == SettingsRows(st, row) = 0 /\ data.hasSettings
BootSettings(st, row, data) ==
    IF SeedsSettings(st, row, data)
    THEN data.settings
    ELSE Upsert(st, "adminPassword", DefaultPassword)
BootLinks(st, row, data) ==
    IF SeedsSettings(st, row, data) /\ data.links.given THEN SeedLinksRow(data) ELSE row

\* What every step of the process's life leaves alone.
BootFrame ==
    /\ lastGet' = NoGet
    /\ resp' = NoResp
    /\ populated' = (populated \/ Len(table') > 0)
    /\ UNCHANGED <<confVars, kind, sessStore, timeVars, authed, pwSet, clock,
                   settingRows, written, q, savedLinks, clientVars>>

\* The module state of the process and the requests it handles stay.
BootStays == UNCHANGED <<usePostgres, pool, sqliteDb, sessionBackend, serving, snap,
                         reqVars, posting>>

\* The module is loaded. initDatabase: with a Postgres DATABASE_URL the
\* pool is constructed, and when the constructor throws the catch clears
\* usePostgres; without Postgres the SQLite file is opened. The session
\* store is built on the backend initDatabase left selected. Then initDb()
\* is called and not awaited. On SQLite (either build) schema and seeding
\* run synchronously, so bootstrap is over when the module has loaded; on
\* Postgres every statement is awaited I/O and bootstrap goes on in steps.
ProcessStart ==
    /\ bootPc = "off"
    /\ LET pg == server = "dual" /\ dbUrl = "postgres" /\ ~poolThrows IN
         /\ usePostgres' = pg
         /\ pool' = IF pg THEN "pool" ELSE "null"
         /\ sqliteDb' = IF pg THEN "null" ELSE "open"
         /\ sessionBackend' = SessionStoreFor(pg)
         /\ IF pg
            THEN /\ bootPc' = "schema"
                 /\ UNCHANGED <<schema, settings, table, posts, nextId, faqs, nextFaqId,
                                contactLinks>>
            ELSE /\ bootPc' = "done"
                 /\ schema' = TRUE
                 /\ posts' = BootPosts(posts, nextId, clock, initialData)
                 /\ nextId' = nextId + Cardinality(posts' \ posts)
                 /\ table' = BootRows(kind, table, initialData)
                 /\ faqs' = BootFaqs(faqs, nextFaqId, clock, initialData)
                 /\ nextFaqId' = nextFaqId + Cardinality(faqs' \ faqs)
                 /\ settings' = BootSettings(settings, contactLinks, initialData)
                 /\ contactLinks' = BootLinks(settings, contactLinks, initialData)
    /\ bootK' = 0
    /\ serving' = FALSE
    /\ snap' = [taken |-> TRUE, settings |-> settings, table |-> table]
    /\ UNCHANGED <<reqVars, posting>>
    /\ BootFrame

\* Postgres: the CREATE TABLE IF NOT EXISTS batch. When the server cannot
\* be reached query() rethrows, initDb's promise rejects and
\* .catch(console.error) logs it: bootstrap is over, the process lives on.
BootSchema ==
    /\ bootPc = "schema"
    /\ bootPc' = IF Reachable THEN "countPosts" ELSE "failed"
    /\ schema' = (schema \/ Reachable)
    /\ UNCHANGED <<bootK, settings, table, posts, nextId, faqs, nextFaqId, contactLinks>>
    /\ BootStays
    /\ BootFrame

\* The order of initDb's sections: posts, categories, faqs,
\* training_process, settings; the model follows one collection (kind).
AfterPosts == IF kind = "categories" THEN "countRows" ELSE "countFaqs"
AfterRows == IF kind = "categories" THEN "countFaqs" ELSE "countSettings"
AfterFaqs == IF kind = "categories" THEN "countSettings" ELSE "countRows"

\* Postgres: SELECT COUNT(*) FROM posts.
BootCountPosts ==
    /\ bootPc = "countPosts" /\ StoreUp
    /\ bootPc' = IF posts = {} /\ Len(initialData.posts) > 0 THEN "seedPosts" ELSE AfterPosts
    /\ bootK' = 0
    /\ UNCHANGED <<schema, settings, table, posts, nextId, faqs, nextFaqId, contactLinks>>
    /\ BootStays
    /\ BootFrame

\* Postgres: the next INSERT INTO posts of the seeding loop.
BootSeedPost ==
    /\ bootPc = "seedPosts" /\ StoreUp
    /\ posts' = posts \cup {PostRow(nextId, initialData.posts[bootK + 1], clock)}
    /\ nextId' = nextId + 1
    /\ bootK' = bootK + 1
    /\ bootPc' = IF bootK + 1 = Len(initialData.posts) THEN AfterPosts ELSE "seedPosts"
    /\ UNCHANGED <<schema, settings, table, faqs, nextFaqId, contactLinks>>
    /\ BootStays
    /\ BootFrame

\* Postgres: SELECT COUNT(*) of the collection table.
BootCountRows ==
    /\ bootPc = "countRows" /\ StoreUp
    /\ bootPc' = IF Len(table) = 0 /\ Len(initialData.rows) > 0
                 THEN "seedRows" ELSE AfterRows
    /\ bootK' = 0
    /\ UNCHANGED <<schema, settings, table, posts, nextId, faqs, nextFaqId, contactLinks>>
    /\ BootStays
    /\ BootFrame

\* Postgres: the next INSERT of the seeding loop; a failing one (a request
\* has inserted the name meanwhile) rejects initDb.
BootSeedRow ==
    /\ bootPc = "seedRows" /\ StoreUp
    /\ IF InsertOk(kind, table, initialData.rows[bootK + 1])
       THEN /\ table' = Append(table, initialData.rows[bootK + 1])
            /\ bootK' = bootK + 1
            /\ bootPc' = IF bootK + 1 = Len(initialData.rows)
                         THEN AfterRows ELSE "seedRows"
       ELSE /\ bootPc' = "failed"
            /\ UNCHANGED <<table, bootK>>
    /\ UNCHANGED <<schema, settings, posts, nextId, faqs, nextFaqId, contactLinks>>
    /\ BootStays
    /\ BootFrame

\* Postgres: SELECT COUNT(*) FROM faqs.
BootCountFaqs ==
    /\ bootPc = "countFaqs" /\ StoreUp
    /\ bootPc' = IF faqs = {} /\ Len(initialData.faqs) > 0 THEN "seedFaqs" ELSE AfterFaqs
    /\ bootK' = 0
    /\ UNCHANGED <<schema, settings, table, posts, nextId, faqs, nextFaqId, contactLinks>>
    /\ BootStays
    /\ BootFrame

\* Postgres: the next INSERT INTO faqs of the seeding loop.
BootSeedFaq ==
    /\ bootPc = "seedFaqs" /\ StoreUp
    /\ faqs' = faqs \cup {FaqRow(nextFaqId, initialData.faqs[bootK + 1], clock)}
    /\ nextFaqId' = nextFaqId + 1
    /\ bootK' = bootK + 1
    /\ bootPc' = IF bootK + 1 = Len(initialData.faqs) THEN AfterFaqs ELSE "seedFaqs"
    /\ UNCHANGED <<schema, settings, table, posts, nextId, contactLinks>>
    /\ BootStays
    /\ BootFrame

\* Postgres: SELECT COUNT(*) FROM settings.
BootCountSettings ==
    /\ bootPc = "countSettings" /\ StoreUp
    /\ bootPc' = IF SeedsSettings(settings, contactLinks, initialData)
                 THEN "seedSettings" ELSE "resetPassword"
    /\ bootK' = 0
    /\ UNCHANGED <<schema, settings, table, posts, nextId, faqs, nextFaqId, contactLinks>>
    /\ BootStays
    /\ BootFrame

\* Postgres: the next upsert of the settings seeding loop.
BootSeedSetting ==
    /\ bootPc = "seedSettings" /\ StoreUp
    /\ IF bootK + 1 <= Len(SeedKeys)
       THEN /\ settings' = Upsert(settings, SeedKeys[bootK + 1],
                                  initialData.settings[SeedKeys[bootK + 1]])
            /\ UNCHANGED contactLinks
       ELSE /\ contactLinks' = SeedLinksRow(initialData)
            /\ UNCHANGED settings
    /\ bootK' = bootK + 1
    /\ bootPc' = IF bootK + 1 = SeedEntries(initialData) THEN "done" ELSE "seedSettings"
    /\ UNCHANGED <<schema, table, posts, nextId, faqs, nextFaqId>>
    /\ BootStays
    /\ BootFrame

\* Postgres: the else branch,
\* INSERT OR REPLACE INTO settings VALUES ('adminPassword', 'comento0804').
BootResetPassword ==
    /\ bootPc = "resetPassword" /\ StoreUp
    /\ settings' = Upsert(settings, "adminPassword", DefaultPassword)
    /\ bootPc' = "done"
    /\ UNCHANGED <<schema, bootK, table, posts, nextId, faqs, nextFaqId, contactLinks>>
    /\ BootStays
    /\ BootFrame

\* The module has loaded: app.listen (or, on Vercel, the exported app is
\* handed requests). Nothing waits for initDb, whatever became of it.
Serve ==
    /\ bootPc # "off" /\ ~serving
    /\ serving' = TRUE
    /\ UNCHANGED <<usePostgres, pool, sqliteDb, sessionBackend, bootPc, bootK, snap, schema,
                   settings, table, posts, nextId, faqs, nextFaqId, contactLinks,
                   reqVars, posting>>
    /\ BootFrame

\* The process ends; its module state and the requests it was handling are
\* gone, the store stays.
ProcessStop ==
    /\ bootPc # "off"
    /\ bootPc' = "off"
    /\ bootK' = 0
    /\ usePostgres' = FALSE
    /\ pool' = "null"
    /\ sqliteDb' = "null"
    /\ sessionBackend' = "none"
    /\ serving' = FALSE
    /\ snap' = NoSnap
    /\ handlers' = [h \in Handlers |-> Idle]
    /\ logins' = [s \in Sids |-> NoLogin]
    /\ posting' = NoPost
    /\ UNCHANGED <<schema, settings, table, posts, nextId, faqs, nextFaqId, contactLinks>>
    /\ BootFrame

\* A request arrives while the CREATE TABLE batch has not run on the
\* database: its first statement fails (the relation does not exist),
\* query() rethrows, the async handler rejects and the request gets no
\* answer; nothing is written.
RequestBeforeSchema ==
    /\ server = "dual" /\ serving /\ Reachable /\ ~schema
    /\ resp' = [NoResp EXCEPT !.op = "noTable", !.status = 0, !.err = "store"]
    /\ lastGet' = NoGet
    /\ UNCHANGED <<confVars, procVars, storeVars, reqVars, snap, authed, pwSet,
                   contentVars, rowVars>>

\* A machine with an empty store on which no process runs yet.
InitBoot ==
    /\ server \in {"dual", "sqlite"}
    /\ dbUrl \in {"none", "postgres"}
    /\ server = "sqlite" => dbUrl = "none"
    /\ poolThrows \in BOOLEAN
    /\ pgUp \in BOOLEAN
    /\ dbUrl = "none" => (~poolThrows /\ pgUp)
    /\ initialData \in InitialDatas
    /\ usePostgres = FALSE
    /\ pool = "null"
    /\ sqliteDb = "null"
    /\ sessionBackend = "none"
    /\ bootPc = "off"
    /\ bootK = 0
    /\ serving = FALSE
    /\ schema = FALSE
    /\ snap = NoSnap
    /\ QuietRequests
    /\ settings = NoSettings
    /\ settingRows = RowsOf(settings)
    /\ written = settings
    /\ kind = "categories"
    /\ table = <<>>
    /\ populated = (Len(table) > 0)
    /\ posts = {}
    /\ nextId = 1
    /\ sessStore = [s \in Sids |-> FALSE]

PasswordBodies ==
    {[NoBody EXCEPT !["adminPassword"] = pw] : pw \in {Undefined, ""} \cup Passwords}

NextBoot ==
    \/ ProcessStart
    \/ BootSchema
    \/ BootCountPosts
    \/ BootSeedPost
    \/ BootCountRows
    \/ BootSeedRow
    \/ BootCountFaqs
    \/ BootSeedFaq
    \/ BootCountSettings
    \/ BootSeedSetting
    \/ BootResetPassword
    \/ Serve
    \/ ProcessStop
    \/ RequestBeforeSchema
    \/ \E body \in PasswordBodies : PostSettings(body, NoLinks)
    \/ \E pw \in Passwords : LoginRequest("s1", pw)
    \/ \E pw \in Passwords, ok \in BOOLEAN : SqliteLogin("s1", pw, ok)
    \/ \E ok \in BOOLEAN : LoginSaved("s1", ok)

SpecBoot == InitBoot /\ [][NextBoot]_vars

(***************************************************************************)
(* query() and the post routes (dual build)                                *)
(***************************************************************************)
\* What query() returns for "INSERT INTO posts (...) VALUES (...)" once the
\* row with identifier id is in. Postgres: the statement is sent as it is,
\* with no RETURNING clause, and pool.query's result has no rows. SQLite:
\* { rowCount: info.changes, rows: [{ id: info.lastInsertRowid }] }.
QueryInsertResult(pg, id) ==
    IF pg THEN [rowCount |-> 1, rows |-> <<>>]
          ELSE [rowCount |-> 1, rows |-> <<[id |-> id]>>]

PostIds == {p.id : p \in posts}

\* The row of the given id (posts.id is the primary key).
RowOf(rows, id) == CHOOSE r \in rows : r.id = id

\* UPDATE <table> SET title = ?, updated_at = CURRENT_TIMESTAMP WHERE id = ?
UpdateRow(rows, id, title, at) ==
    {IF r.id = id THEN PostRow(id, title, at) ELSE r : r \in rows}

PostsFrame ==
    /\ lastGet' = NoGet
    /\ UNCHANGED <<confVars, procVars, settings, kind, table, sessStore, timeVars, reqVars,
                   snap, authed, pwSet, contentVars, settingRows, written,
                   q, linkVars, populated, editorVars>>
    /\ RequestServed

\* POST /api/posts (POST /api/faqs has the same shape): the INSERT runs,
\* then res.json({ id: result.rows[0].id }). With no row in the result,
\* rows[0] is undefined and reading .id throws: the async handler rejects
\* and the request gets no answer (express 4, status 0 here) or the error
\* handler's 500 (express 5); the row stays inserted.
\* A body without title makes the INSERT fail on NOT NULL: query() logs and
\* rethrows, and the handler rejects in the same way with nothing inserted
\* (Postgres has drawn the SERIAL value by then).
CreatePost(title) ==
    /\ server = "dual" /\ serving /\ StoreUp
    /\ nextId <= MaxPosts
    /\ IF title = Null
       THEN /\ posts' = posts
            /\ nextId' = IF usePostgres THEN nextId + 1 ELSE nextId
            /\ \E st \in {0, 500} :
                  resp' = [NoResp EXCEPT !.op = "createPost", !.status = st,
                                         !.err = "store",
                                         !.row = PostRow(0, title, clock)]
       ELSE /\ posts' = posts \cup {PostRow(nextId, title, clock)}
            /\ nextId' = nextId + 1
            /\ LET result == QueryInsertResult(usePostgres, nextId) IN
                 IF Len(result.rows) = 0
                 THEN \E st \in {0, 500} :
                         resp' = [NoResp EXCEPT !.op = "createPost", !.status = st,
                                                !.err = "type",
                                                !.row = PostRow(0, title, clock)]
                 ELSE resp' = [NoResp EXCEPT !.op = "createPost", !.status = 200,
                                             !.id = result.rows[1].id,
                                             !.row = PostRow(result.rows[1].id, title, clock)]
    /\ PostsFrame

\* PUT /api/posts/:id: one UPDATE; res.json({ success: rowCount > 0 }).
\* A missing title fails on NOT NULL when the row exists.
UpdatePost(id, title) ==
    /\ server = "dual" /\ serving /\ StoreUp
    /\ IF title = Null /\ id \in PostIds
       THEN /\ posts' = posts
            /\ \E st \in {0, 500} :
                  resp' = [NoResp EXCEPT !.op = "putPost", !.status = st, !.id = id,
                                         !.err = "store",
                                         !.row = PostRow(id, title, clock)]
       ELSE /\ posts' = UpdateRow(posts, id, title, clock)
            /\ resp' = [NoResp EXCEPT !.op = "putPost", !.status = 200, !.id = id,
                                      !.changes = IF id \in PostIds THEN 1 ELSE 0,
                                      !.row = PostRow(id, title, clock)]
    /\ UNCHANGED nextId
    /\ PostsFrame

\* POST /api/posts/delete: DELETE FROM posts WHERE id = Number(req.body.id);
\* res.json({ success: true, changes: result.rowCount }).
DeletePost(id) ==
    /\ server = "dual" /\ serving /\ StoreUp
    /\ posts' = {p \in posts : p.id # id}
    /\ resp' = [NoResp EXCEPT !.op = "deletePost", !.status = 200, !.id = id,
                              !.changes = IF id \in PostIds THEN 1 ELSE 0]
    /\ UNCHANGED nextId
    /\ PostsFrame

\* GET /api/posts/:id: the row, or 404 when the SELECT finds none.
GetPost(id) ==
    /\ server = "dual" /\ serving /\ StoreUp
    /\ resp' = IF id \in PostIds
               THEN [NoResp EXCEPT !.op = "getPost", !.status = 200, !.id = id,
                                   !.row = RowOf(posts, id)]
               ELSE [NoResp EXCEPT !.op = "getPost", !.status = 404, !.id = id]
    /\ UNCHANGED <<posts, nextId>>
    /\ PostsFrame

InitPosts ==
    /\ Started
    /\ server = "dual"
    /\ QuietRequests
    /\ settings = Upsert(NoSettings, "adminPassword", DefaultPassword)
    /\ settingRows = RowsOf(settings)
    /\ written = settings
    /\ kind = "categories"
    /\ table = <<>>
    /\ populated = (Len(table) > 0)
    /\ posts = {}
    /\ nextId = 1
    /\ sessStore = [s \in Sids |-> FALSE]

NextPosts ==
    \/ \E title \in Titles : CreatePost(title)
    \/ \E id \in 1..MaxPosts : DeletePost(id)
    \/ \E id \in 1..MaxPosts : GetPost(id)

SpecPosts == InitPosts /\ [][NextPosts]_vars

(***************************************************************************)
(* The settings table row by row: the upsert statement under each backend  *)
(***************************************************************************)
SettingValues == {"v1", "v2"}


\* The rows that hold key (settings.key is the PRIMARY KEY).
KeyRows(rows, key) == {i \in 1..Len(rows) : rows[i].key = key}

\* SQLite, INSERT OR REPLACE INTO settings (key, value) VALUES (?, ?): the
\* row that conflicts on the primary key is deleted, the new row inserted.
SqliteInsertOrReplace(rows, key, value) ==
    Append(SelectSeq(rows, LAMBDA r : r.key # key), SettingRow(key, value))

\* Postgres, INSERT INTO settings (key, value) VALUES ($1, $2)
\* ON CONFLICT (key) DO UPDATE SET value = EXCLUDED.value.
PgInsertOnConflictUpdate(rows, key, value) ==
    IF KeyRows(rows, key) # {}
    THEN [i \in 1..Len(rows) |->
             IF rows[i].key = key THEN SettingRow(key, value) ELSE rows[i]]
    ELSE Append(rows, SettingRow(key, value))

\* Postgres, plain INSERT INTO settings: a second row for the key violates
\* the primary key, the statement fails and the table is as before.
PgInsert(rows, key, value) ==
    IF KeyRows(rows, key) # {} THEN rows ELSE Append(rows, SettingRow(key, value))

\* Mutant: query() lacks the settings special case, so on Postgres the
\* statement goes through the generic rewrite INSERT OR REPLACE -> INSERT.
QueryUpsertGenericRewrite(pg, rows, key, value) ==
    IF pg THEN PgInsert(rows, key, value)
          ELSE SqliteInsertOrReplace(rows, key, value)

\* query("INSERT OR REPLACE INTO settings (key, value) VALUES (?, ?)",
\* [key, value]): the settings table afterwards.
QueryUpsert(pg, rows, key, value) ==
    IF pg THEN PgInsertOnConflictUpdate(rows, key, value)
          ELSE SqliteInsertOrReplace(rows, key, value)

\* GET /api/settings: rows.reduce((acc, curr) => ({ ...acc, [curr.key]:
\* curr.value }), {}): a later row overrides an earlier one of the same key.
SettingsMap(rows) ==
    [k \in SettingKeys |->
        IF KeyRows(rows, k) = {} THEN Absent
        ELSE rows[CHOOSE i \in KeyRows(rows, k) :
                     \A j \in KeyRows(rows, k) : j <= i].value]

\* One upsert of POST /api/settings (either build; the synchronous build
\* runs the same statement on better-sqlite3).
UpsertSetting(key, value) ==
    /\ serving /\ StoreUp
    /\ settingRows' = QueryUpsert(usePostgres, settingRows, key, value)
    /\ written' = [written EXCEPT ![key] = value]
    /\ settings' = Upsert(settings, key, value)
    /\ resp' = [NoResp EXCEPT !.op = "upsert", !.status = 200,
                              !.seen = SettingsMap(settingRows)[key],
                              !.body = [k \in SettingKeys |->
                                           IF k = key THEN value ELSE Undefined]]
    /\ lastGet' = NoGet
    /\ UNCHANGED <<confVars, procVars, kind, table, posts, nextId, sessStore, timeVars,
                   reqVars, snap, authed, pwSet, contentVars, q, linkVars,
                   populated, clientVars>>

GetSettings ==
    /\ serving /\ StoreUp
    /\ resp' = [NoResp EXCEPT !.op = "getSettings", !.status = 200,
                              !.body = SettingsMap(settingRows)]
    /\ lastGet' = NoGet
    /\ UNCHANGED <<confVars, procVars, storeVars, reqVars, snap, authed, pwSet,
                   contentVars, rowVars>>

InitSettings ==
    /\ Started
    /\ QuietRequests
    /\ settings = Upsert(NoSettings, "adminPassword", DefaultPassword)
    /\ settingRows = RowsOf(settings)
    /\ written = settings
    /\ kind = "categories"
    /\ table = <<>>
    /\ populated = (Len(table) > 0)
    /\ posts = {}
    /\ nextId = 1
    /\ sessStore = [s \in Sids |-> FALSE]

NextSettings ==
    \/ \E key \in SettingKeys, value \in SettingValues : UpsertSetting(key, value)
    \/ GetSettings

SpecSettings == InitSettings /\ [][NextSettings]_vars

(***************************************************************************)
(* Posts over time, both builds                                            *)
(***************************************************************************)
MaxClock == 2            \* seconds that pass

\* A second passes: CURRENT_TIMESTAMP has a resolution of one second.
Tick ==
    /\ clock < MaxClock
    /\ clock' = clock + 1
    /\ lastGet' = NoGet
    /\ resp' = NoResp
    /\ UNCHANGED <<confVars, procVars, settings, kind, table, posts, nextId,
                   sessStore, timeVars, reqVars, snap, authed, pwSet, faqs, nextFaqId, rowVars>>

\* Synchronous build, POST /api/posts: the INSERT runs on better-sqlite3
\* and the answer is { id: info.lastInsertRowid }. A failing INSERT throws
\* out of the handler and express answers 500.
SqliteCreatePost(title) ==
    /\ server = "sqlite" /\ serving
    /\ nextId <= MaxPosts
    /\ IF title = Null
       THEN /\ UNCHANGED <<posts, nextId>>
            /\ resp' = [NoResp EXCEPT !.op = "createPost", !.status = 500,
                                      !.err = "store",
                                      !.row = PostRow(0, title, clock)]
       ELSE /\ posts' = posts \cup {PostRow(nextId, title, clock)}
            /\ nextId' = nextId + 1
            /\ resp' = [NoResp EXCEPT !.op = "createPost", !.status = 200,
                                      !.id = nextId,
                                      !.row = PostRow(nextId, title, clock)]
    /\ PostsFrame

\* Synchronous build, GET /api/posts/:id: res.json(post), where post is
\* undefined when no row matches: status 200 with an empty body.
SqliteGetPost(id) ==
    /\ server = "sqlite" /\ serving
    /\ resp' = [NoResp EXCEPT !.op = "getPost", !.status = 200, !.id = id,
                              !.row = IF id \in PostIds THEN RowOf(posts, id) ELSE NoRow]
    /\ UNCHANGED <<posts, nextId>>
    /\ PostsFrame

\* Synchronous build, POST /api/posts/delete: if (!id) answers 400 (a
\* missing id, and id 0), else the DELETE runs and its changes are answered.
SqliteDeletePost(id) ==
    /\ server = "sqlite" /\ serving
    /\ IF id = 0
       THEN /\ posts' = posts
            /\ resp' = [NoResp EXCEPT !.op = "deletePost", !.status = 400, !.id = id]
       ELSE /\ posts' = {p \in posts : p.id # id}
            /\ resp' = [NoResp EXCEPT !.op = "deletePost", !.status = 200, !.id = id,
                                      !.changes = IF id \in PostIds THEN 1 ELSE 0]
    /\ UNCHANGED nextId
    /\ PostsFrame

\* Synchronous build, PUT /api/posts/:id: the UPDATE runs on better-sqlite3
\* and the answer is { success: true } whether or not a row matched
\* (changes 1 stands for the flag). A missing title is bound as NULL: the
\* UPDATE of an existing row fails on NOT NULL, the error is thrown out of
\* the handler and express answers 500.
SqliteUpdatePost(id, title) ==
    /\ server = "sqlite" /\ serving
    /\ IF title = Null /\ id \in PostIds
       THEN /\ posts' = posts
            /\ resp' = [NoResp EXCEPT !.op = "putPost", !.status = 500, !.id = id,
                                      !.err = "store",
                                      !.row = PostRow(id, title, clock)]
       ELSE /\ posts' = UpdateRow(posts, id, title, clock)
            /\ resp' = [NoResp EXCEPT !.op = "putPost", !.status = 200, !.id = id,
                                      !.changes = 1,
                                      !.row = PostRow(id, title, clock)]
    /\ UNCHANGED nextId
    /\ PostsFrame

\* SELECT * FROM posts ORDER BY updated_at DESC: every listing of the rows
\* that is descending in updated_at (SQL leaves the order of rows with equal
\* updated_at open).
SelectByUpdatedDesc(rows) ==
    {l \in [1..Cardinality(rows) -> rows] :
        /\ \A i, j \in 1..Cardinality(rows) : i # j => l[i] # l[j]
        /\ \A i, j \in 1..Cardinality(rows) : i < j => l[i].updated_at >= l[j].updated_at}

\* GET /api/posts (the same statement in both builds).
GetPosts ==
    /\ serving /\ StoreUp
    /\ \E l \in SelectByUpdatedDesc(posts) :
          resp' = [NoResp EXCEPT !.op = "getPosts", !.status = 200, !.list = l]
    /\ UNCHANGED <<posts, nextId>>
    /\ PostsFrame

InitContent ==
    /\ Started
    /\ QuietRequests
    /\ settings = Upsert(NoSettings, "adminPassword", DefaultPassword)
    /\ settingRows = RowsOf(settings)
    /\ written = settings
    /\ kind = "categories"
    /\ table = <<>>
    /\ populated = (Len(table) > 0)
    /\ posts = {}
    /\ nextId = 1
    /\ sessStore = [s \in Sids |-> FALSE]

RequestIds == 0..MaxPosts
RequestTitles == Titles \cup {Null}

NextContent ==
    \/ Tick
    \/ \E title \in RequestTitles : CreatePost(title)
    \/ \E id \in RequestIds, title \in RequestTitles : UpdatePost(id, title)
    \/ \E id \in RequestIds : DeletePost(id)
    \/ \E id \in RequestIds : GetPost(id)
    \/ \E title \in RequestTitles : SqliteCreatePost(title)
    \/ \E id \in RequestIds : SqliteGetPost(id)
    \/ \E id \in RequestIds : SqliteDeletePost(id)
    \/ \E id \in RequestIds, title \in RequestTitles : SqliteUpdatePost(id, title)
    \/ GetPosts

SpecContent == InitContent /\ [][NextContent]_vars

(***************************************************************************)
(* FAQ routes, both builds                                                 *)
(***************************************************************************)
MaxFaqs == 3             \* FAQs ever inserted
Questions == {"Q1", "Q2"}
FaqRequestIds == 1..MaxFaqs

FaqIds == {f.id : f \in faqs}

FaqFrame ==
    /\ lastGet' = NoGet
    /\ UNCHANGED <<confVars, procVars, storeVars, reqVars, snap, authed, pwSet,
                   clock, settingRows, written,
                   q, linkVars, populated, editorVars>>
    /\ RequestServed

\* POST /api/faqs, dual build: the INSERT, then
\* res.json({ success: true, id: result.rows[0].id }), which throws on
\* Postgres where the result has no rows.
CreateFaq(question) ==
    /\ server = "dual" /\ serving /\ StoreUp
    /\ nextFaqId <= MaxFaqs
    /\ faqs' = faqs \cup {FaqRow(nextFaqId, question, clock)}
    /\ nextFaqId' = nextFaqId + 1
    /\ LET result == QueryInsertResult(usePostgres, nextFaqId) IN
         IF Len(result.rows) = 0
         THEN \E st \in {0, 500} :
                 resp' = [NoResp EXCEPT !.op = "createFaq", !.status = st,
                                        !.err = "type"]
         ELSE resp' = [NoResp EXCEPT !.op = "createFaq", !.status = 200,
                                     !.id = result.rows[1].id]
    /\ FaqFrame

\* POST /api/faqs, synchronous build: the INSERT, then { success: true }.
SqliteCreateFaq(question) ==
    /\ server = "sqlite" /\ serving
    /\ nextFaqId <= MaxFaqs
    /\ faqs' = faqs \cup {FaqRow(nextFaqId, question, clock)}
    /\ nextFaqId' = nextFaqId + 1
    /\ resp' = [NoResp EXCEPT !.op = "createFaq", !.status = 200]
    /\ FaqFrame

\* GET /api/faqs (the same statement in both builds).
GetFaqs ==
    /\ serving /\ StoreUp
    /\ \E l \in SelectByUpdatedDesc(faqs) :
          resp' = [NoResp EXCEPT !.op = "getFaqs", !.status = 200, !.list = l]
    /\ UNCHANGED <<faqs, nextFaqId>>
    /\ FaqFrame

\* PUT /api/faqs/:id, dual build: the build registers no such route, the
\* request falls through to the 404 of the last middleware and no
\* statement runs.
PutFaq(id, question) ==
    /\ server = "dual" /\ serving
    /\ resp' = [NoResp EXCEPT !.op = "putFaq", !.status = 404, !.id = id,
                              !.row = FaqRow(id, question, clock)]
    /\ UNCHANGED <<faqs, nextFaqId>>
    /\ FaqFrame

\* PUT /api/faqs/:id, synchronous build: UPDATE faqs SET question = ?,
\* answer = ?, updated_at = CURRENT_TIMESTAMP WHERE id = ?.
SqlitePutFaq(id, question) ==
    /\ server = "sqlite" /\ serving
    /\ faqs' = {IF f.id = id THEN FaqRow(id, question, clock) ELSE f : f \in faqs}
    /\ resp' = [NoResp EXCEPT !.op = "putFaq", !.status = 200, !.id = id,
                              !.row = FaqRow(id, question, clock)]
    /\ UNCHANGED nextFaqId
    /\ FaqFrame

\* GET /api/faqs/:id, dual build: the row, or 404.
GetFaq(id) ==
    /\ server = "dual" /\ serving /\ StoreUp
    /\ resp' = IF id \in FaqIds
               THEN [NoResp EXCEPT !.op = "getFaq", !.status = 200, !.id = id,
                                   !.row = RowOf(faqs, id)]
               ELSE [NoResp EXCEPT !.op = "getFaq", !.status = 404, !.id = id]
    /\ UNCHANGED <<faqs, nextFaqId>>
    /\ FaqFrame

\* POST /api/faqs/delete, dual build.
DeleteFaq(id) ==
    /\ server = "dual" /\ serving /\ StoreUp
    /\ faqs' = {f \in faqs : f.id # id}
    /\ resp' = [NoResp EXCEPT !.op = "deleteFaq", !.status = 200, !.id = id,
                              !.changes = IF id \in FaqIds THEN 1 ELSE 0]
    /\ UNCHANGED nextFaqId
    /\ FaqFrame

\* GET /api/faqs/:id, synchronous build: res.json(faq), where faq is
\* undefined when no row matches: status 200 with an empty body.
SqliteGetFaq(id) ==
    /\ server = "sqlite" /\ serving
    /\ resp' = [NoResp EXCEPT !.op = "getFaq", !.status = 200, !.id = id,
                              !.row = IF id \in FaqIds THEN RowOf(faqs, id) ELSE NoRow]
    /\ UNCHANGED <<faqs, nextFaqId>>
    /\ FaqFrame

\* POST /api/faqs/delete, synchronous build: if (!id) answers 400 (a
\* missing id, and id 0), else the DELETE runs and its changes are answered.
SqliteDeleteFaq(id) ==
    /\ server = "sqlite" /\ serving
    /\ IF id = 0
       THEN /\ faqs' = faqs
            /\ resp' = [NoResp EXCEPT !.op = "deleteFaq", !.status = 400, !.id = id]
       ELSE /\ faqs' = {f \in faqs : f.id # id}
            /\ resp' = [NoResp EXCEPT !.op = "deleteFaq", !.status = 200, !.id = id,
                                      !.changes = IF id \in FaqIds THEN 1 ELSE 0]
    /\ UNCHANGED nextFaqId
    /\ FaqFrame

NextFaqs ==
    \/ Tick
    \/ \E question \in Questions : CreateFaq(question)
    \/ \E question \in Questions : SqliteCreateFaq(question)
    \/ GetFaqs
    \/ \E id \in FaqRequestIds, question \in Questions : PutFaq(id, question)
    \/ \E id \in FaqRequestIds, question \in Questions : SqlitePutFaq(id, question)
    \/ \E id \in FaqRequestIds : GetFaq(id)
    \/ \E id \in FaqRequestIds : DeleteFaq(id)
    \/ \E id \in FaqRequestIds : SqliteGetFaq(id)
    \/ \E id \in FaqRequestIds \cup {0} : SqliteDeleteFaq(id)

SpecFaqs == InitContent /\ [][NextFaqs]_vars

(***************************************************************************)
(* query(): the statement text and bind values each backend is handed      *)
(***************************************************************************)
MaxLen == 4              \* tokens of a statement

\* A statement is a sequence of tokens: a '?' placeholder, a '$n'
\* placeholder, the text "INSERT OR REPLACE INTO settings", or any other
\* run of text.
QMark == [kind |-> "?", n |-> 0]
Dollar(n) == [kind |-> "$", n |-> n]
Text == [kind |-> "text", n |-> 0]
UpsertHead == [kind |-> "INSERT OR REPLACE INTO settings", n |-> 0]

\* "INSERT OR REPLACE INTO settings (key, value) VALUES (?, ?)"
SettingsUpsertStmt == <<UpsertHead, QMark, Text, QMark, Text>>

\* "INSERT INTO settings (key, value) VALUES ($1, $2) ON CONFLICT (key) DO
\* UPDATE SET value = EXCLUDED.value"
PgSettingsUpsertStmt == <<Text, Dollar(1), Text, Dollar(2), Text>>

BindValues == {"a", "b"}

\* The statements handlers pass, with bind values for their placeholders.
Statements == SeqsUpTo({QMark, Text}, MaxLen) \cup {SettingsUpsertStmt}

CountQMarks(text, upTo) == Cardinality({i \in 1..upTo : text[i] = QMark})

ParamsFor(text) == [1..CountQMarks(text, Len(text)) -> BindValues]

\* Mutant: the counter of the replace callback starts at 0.
PgRewriteFromZero(text) ==
    [i \in 1..Len(text) |->
        IF text[i] = QMark THEN Dollar(CountQMarks(text, i) - 1) ELSE text[i]]

\* Postgres branch of query(): the settings upsert is replaced as a whole;
\* in any other statement text.replace(/\?/g, () => `$${index++}`) with
\* index starting at 1 numbers the placeholders from the left. (The DDL
\* rewrites that follow touch no placeholder.)
PgRewrite(text) ==
    IF \E i \in 1..Len(text) : text[i] = UpsertHead
    THEN PgSettingsUpsertStmt
    ELSE [i \in 1..Len(text) |->
             IF text[i] = QMark THEN Dollar(CountQMarks(text, i)) ELSE text[i]]

\* SQLite branch of query(): text.replace(/\$\d+/g, "?").
SqliteRewrite(text) ==
    [i \in 1..Len(text) |-> IF text[i].kind = "$" THEN QMark ELSE text[i]]

\* The placeholders of a statement, left to right.
Placeholders(text) == SelectSeq(text, LAMBDA t : t.kind \in {"?", "$"})

\* The value each placeholder of the sent statement is bound to, left to
\* right: Postgres binds $n to the n-th value, "UNBOUND" when there is
\* none; SQLite binds the k-th ? to the k-th value.
BoundValues(sent, sentParams) ==
    [k \in 1..Len(Placeholders(sent)) |->
        LET ph == Placeholders(sent)[k]
            n == IF ph.kind = "$" THEN ph.n ELSE k
        IN  IF n \in 1..Len(sentParams) THEN sentParams[n] ELSE "UNBOUND"]

\* A handler calls query(text, params).
Query(text, params) ==
    /\ server = "dual" /\ serving /\ StoreUp
    /\ q' = [backend |-> QueryBackend, text |-> text, params |-> params,
             sent |-> IF QueryBackend = "postgres" THEN PgRewrite(text)
                      ELSE SqliteRewrite(text),
             sentParams |-> params]
    /\ lastGet' = NoGet
    /\ resp' = NoResp
    /\ UNCHANGED <<confVars, procVars, storeVars, reqVars, snap, authed, pwSet,
                   contentVars, settingRows, written, linkVars, populated, clientVars>>

NextQuery ==
    \E text \in Statements : \E params \in ParamsFor(text) : Query(text, params)

InitQuery ==
    /\ InitContent
    /\ server = "dual"

SpecQuery == InitQuery /\ [][NextQuery]_vars

(***************************************************************************)
(* The settings form: POST /api/settings with every key, and the client's  *)
(* fetchData                                                               *)
(***************************************************************************)
\* Bodies that provide one of the five keys, and four that provide two.
SiteBodies ==
    {b \in SettingsBodies : Cardinality({k \in SettingKeys : b[k] # Undefined}) <= 1}
    \cup {[NoBody EXCEPT !["siteName"] = "S1", !["primaryColor"] = "P1"],
          [NoBody EXCEPT !["siteName"] = "", !["contactInfo"] = ""],
          [NoBody EXCEPT !["adminPassword"] = "pw1", !["contactInfo"] = "C1"],
          [NoBody EXCEPT !["logoUrl"] = "L1", !["contactInfo"] = ""]}

NextSite ==
    \/ \E body \in SiteBodies : PostSettings(body, NoLinks)
    \/ \E h \in Handlers : PostSettingsNext(h)

SpecSite == InitContent /\ [][NextSite]_vars

\* GET /api/settings as the client's fetchData uses it: the rows reduced to
\* an object, then
\*   if (settingsData.contactLinks)
\*       settingsData.contactLinks = JSON.parse(settingsData.contactLinks)
\* A missing row or an empty text leaves contactLinks as it came.
FetchData ==
    /\ serving /\ StoreUp
    /\ resp' = [NoResp EXCEPT
                   !.op = "fetchData", !.status = 200,
                   !.body = [k \in SettingKeys |->
                                IF settings[k] = Absent THEN Undefined ELSE settings[k]],
                   !.err = IF contactLinks.present /\ Len(contactLinks.text) > 0
                           THEN "" ELSE "unparsed",
                   !.list = IF contactLinks.present /\ Len(contactLinks.text) > 0
                            THEN Parse(contactLinks.text) ELSE <<>>]
    /\ lastGet' = NoGet
    /\ UNCHANGED <<confVars, procVars, storeVars, reqVars, snap, authed, pwSet,
                   contentVars, rowVars>>

\* Requests that save the links alone (any list), and requests that save
\* the contact information along with the seed list or the empty list.
LinkFormBodies == {[NoBody EXCEPT !["contactInfo"] = "C1"]}
LinkFormLists == {[given |-> TRUE, list |-> SeedLinks], [given |-> TRUE, list |-> <<>>]}

NextLinks ==
    \/ \E links \in LinkBodies : PostSettings(NoBody, links)
    \/ \E body \in LinkFormBodies, links \in LinkFormLists : PostSettings(body, links)
    \/ \E h \in Handlers : PostSettingsNext(h)
    \/ FetchData

SpecLinks == InitContent /\ [][NextLinks]_vars

(***************************************************************************)
(* Sessions over time                                                      *)
(***************************************************************************)
\* The session store clears the rows whose expire column is in the past
\* (better-sqlite3-session-store: expired: { clear: true, intervalMs };
\* connect-pg-simple prunes on its own interval).
ClearExpired(s) ==
    /\ serving /\ StoreUp
    /\ sessStore[s] /\ clock > sessExpire[s]
    /\ sessStore' = [sessStore EXCEPT ![s] = FALSE]
    /\ sessExpire' = [sessExpire EXCEPT ![s] = 0]
    /\ resp' = NoResp
    /\ UNCHANGED <<logins, authed, sessCreated, pwSet>>
    /\ AuthFrame

InitSession == InitContent

NextSession ==
    \/ \E s \in Sids, pw \in LoginPasswords : LoginRequest(s, pw)
    \/ \E s \in Sids, ok \in BOOLEAN : LoginSaved(s, ok)
    \/ \E s \in Sids, pw \in LoginPasswords, ok \in BOOLEAN : SqliteLogin(s, pw, ok)
    \/ \E s \in Sids : Check(s)
    \/ \E s \in Sids, ok \in BOOLEAN : Logout(s, ok)
    \/ \E s \in Sids : ClearExpired(s)
    \/ Tick

SpecSession == InitSession /\ [][NextSession]_vars

(***************************************************************************)
(* The mutating routes and the session a request is made on                *)
(***************************************************************************)
\* Inputs of the requests made here.
GuardBodies == {[NoBody EXCEPT !["siteName"] = "S1"],
                [NoBody EXCEPT !["siteName"] = "S1", !["primaryColor"] = "P1"]}
GuardTitles == {"T1", Null}
GuardIds == {1}
GuardCollections == {SeedRows}
GuardEntries == {[name |-> "A", ord |-> 1]}

\* better-sqlite3 and its session store are synchronous: on SQLite a request
\* runs from the session middleware to the end of its response in one turn,
\* and the next request starts when no other is under way. On Postgres
\* every store call suspends the request.
Turn == usePostgres \/ \A h \in Handlers : req[h].pc \in {"idle", "done"}

\* What a step of the session middleware leaves alone.
GuardFrame ==
    /\ lastGet' = NoGet
    /\ resp' = NoResp
    /\ UNCHANGED <<confVars, procVars, settings, kind, table, posts, nextId,
                   sessStore, sessCreated, reqVars, snap, authed, pwSet,
                   contentVars, settingRows, written, q, linkVars, populated,
                   editorVars>>

\* app.use(session({ store, resave: false, saveUninitialized: false, ... }))
\* is registered before every route. A request to a mutating route arrives
\* with the cookie of session s, or with none (NoSid): the store is asked
\* for the row of s, and req.session is that row's session, with isAdmin,
\* when the row is there and has not expired, a new empty session in every
\* other case. The request takes the lowest slot that was not used.
SessionLoad(h, s) ==
    /\ server = "dual" /\ serving /\ StoreUp
    /\ Turn
    /\ req[h].pc = "idle"
    /\ \A g \in Handlers : g < h => req[g].pc # "idle"
    /\ req' = [req EXCEPT ![h] =
                  [pc |-> "loaded", sid |-> s,
                   isAdmin |-> (s # NoSid /\ Valid(s)), slot |-> 0, status |-> 0]]
    /\ UNCHANGED sessExpire
    /\ GuardFrame

\* The mutating routes, each registered as app.post/put/delete(path,
\* async (req, res) => ...) with the handler as its only middleware: the
\* step the handler takes when the request reaches it. No handler reads
\* req.session.
MutatingRoutes(h) ==
    \/ \E title \in GuardTitles : CreatePost(title)
    \/ \E id \in GuardIds : UpdatePost(id, "T2")
    \/ \E id \in GuardIds : DeletePost(id)
    \/ \E body \in GuardBodies : PostSettings(body, NoLinks)
    \/ \E body \in GuardCollections : DualBulkDelete(h, body)
    \/ \E body \in GuardCollections : DualBulkSync(h, body)
    \/ \E e \in GuardEntries : AddCategory(e)
    \/ \E i \in 0..1 : DeleteCategory(i)
    \/ CreateFaq("Q1")
    \/ \E id \in GuardIds : DeleteFaq(id)

\* Where the request at h is after a step of its handler: suspended in the
\* loop of the bulk routes or between two upserts of POST /api/settings,
\* answered, or over without an answer (the handler's promise rejected).
NextPc(h) ==
    IF resp'.op = "none"
    THEN IF handlers'[h].st = "run" THEN "bulk"
         ELSE IF handlers'[h].st = "ok" THEN "handled" ELSE "done"
    ELSE IF resp'.op = "upsertSettings" THEN "upserts"
    ELSE IF resp'.status = 0 THEN "done" ELSE "handled"

Moved(h) ==
    req' = [req EXCEPT
              ![h].pc = NextPc(h),
              ![h].slot = IF NextPc(h) # "upserts" THEN 0
                          ELSE IF req[h].pc = "upserts" THEN req[h].slot
                          ELSE CHOOSE g \in Handlers :
                                  posting[g].st = "idle" /\ posting'[g].st = "run",
              ![h].status = IF NextPc(h) # "handled" THEN 0
                            ELSE IF resp'.op = "none" THEN 200
                            ELSE resp'.status]

\* Mutant: the mutating routes are registered behind a guard that answers
\* 401 unless the request's session holds the isAdmin flag.
MutatingRequestAdminOnly(h) ==
    /\ req[h].pc = "loaded"
    /\ IF req[h].isAdmin
       THEN MutatingRoutes(h) /\ Moved(h)
       ELSE /\ resp' = [NoResp EXCEPT !.op = "guard", !.status = 401]
            /\ req' = [req EXCEPT ![h].pc = "handled", ![h].status = 401]
            /\ lastGet' = NoGet
            /\ UNCHANGED <<confVars, procVars, storeVars, reqVars, snap, authed,
                           pwSet, contentVars, settingRows, written, q, linkVars,
                           populated, editorVars>>

\* The request at h, its session loaded, reaches the handler of its route.
MutatingRequest(h) ==
    /\ req[h].pc = "loaded"
    /\ MutatingRoutes(h)
    /\ Moved(h)

\* Postgres: the handler suspended at h goes on with its next statement.
RequestGoesOn(h) ==
    /\ \/ /\ req[h].pc = "bulk"
          /\ DualBulkInsert(h) \/ DualBulkRespond(h)
       \/ /\ req[h].pc = "upserts"
          /\ PostSettingsNext(req[h].slot)
    /\ Moved(h)

\* express-session wraps res.end: when the response ends and the session
\* is the one loaded from the store, not modified, the store's touch() sets
\* the row's expiry anew (connect-pg-simple: UPDATE session SET expire WHERE
\* sid, whatever expire was). A session that was created for this request
\* is not saved (saveUninitialized: false) and nothing is touched.
SessionTouch(h) ==
    /\ serving
    /\ req[h].pc = "handled"
    /\ sessExpire' = IF req[h].isAdmin /\ StoreUp /\ sessStore[req[h].sid]
                     THEN [sessExpire EXCEPT ![req[h].sid] = clock + SessionTtl]
                     ELSE sessExpire
    /\ req' = [req EXCEPT ![h].pc = "done"]
    /\ GuardFrame

\* The sweep of the session store runs on a timer, between the turns of the
\* requests.
SessionSweep(s) ==
    /\ Turn
    /\ ClearExpired(s)

\* A started dual build with empty tables and no session stored.
InitGuard ==
    /\ Started
    /\ server = "dual"
    /\ QuietRequests
    /\ settings = Upsert(NoSettings, "adminPassword", DefaultPassword)
    /\ settingRows = RowsOf(settings)
    /\ written = settings
    /\ kind \in Kinds
    /\ table = <<>>
    /\ populated = (Len(table) > 0)
    /\ posts = {}
    /\ nextId = 1
    /\ sessStore = [s \in Sids |-> FALSE]

\* The server runs and the administrator has logged in on s1, the state a
\* login with the stored password leaves: the session store holds the row of
\* s1 with isAdmin and its expiry a time-to-live ahead. s2 is the cookie of
\* a session the store does not hold.
InitLoggedIn ==
    /\ Started
    /\ server = "dual"
    /\ handlers = [h \in Handlers |-> Idle]
    /\ logins = [s \in Sids |-> NoLogin]
    /\ lastGet = NoGet
    /\ resp = NoResp
    /\ sessStore = [s \in Sids |-> s = "s1"]
    /\ sessExpire = [s \in Sids |-> IF s = "s1" THEN SessionTtl ELSE 0]
    /\ authed = sessStore
    /\ sessCreated = [s \in Sids |-> 0]
    /\ pwSet = Absent
    /\ faqs = {}
    /\ nextFaqId = 1
    /\ clock = 0
    /\ q = NoQuery
    /\ contactLinks = NoLinksRow
    /\ savedLinks = NoLinks
    /\ posting = NoPost
    /\ settings = Upsert(NoSettings, "adminPassword", DefaultPassword)
    /\ settingRows = RowsOf(settings)
    /\ written = settings
    /\ kind \in Kinds
    /\ table = <<>>
    /\ populated = FALSE
    /\ posts = {}
    /\ nextId = 1
    /\ fetching = {}
    /\ editingCategories = <<>>
    /\ addCount = 0
    /\ saveReq = NoSave
    /\ req = NoReq

\* Requests to the mutating routes, two in a behaviour, while time passes
\* and sessions expire.
NextGuard ==
    \/ \E h \in Handlers, s \in Sids \cup {NoSid} : SessionLoad(h, s)
    \/ \E h \in Handlers : MutatingRequest(h)
    \/ \E h \in Handlers : RequestGoesOn(h)
    \/ \E h \in Handlers : SessionTouch(h)
    \/ \E s \in Sids : SessionSweep(s)
    \/ Tick

SpecGuard == InitLoggedIn /\ [][NextGuard]_vars

(***************************************************************************)
(* Restarts of a server whose collection is edited through the API         *)
(***************************************************************************)
\* Collections a bulk request submits here: none, or one entry.
SeedBodies == {<<>>, <<[name |-> "A", ord |-> 1]>>}

\* A machine with an empty store, a seed payload and no process yet.
InitSeed ==
    /\ server \in {"dual", "sqlite"}
    /\ dbUrl \in {"none", "postgres"}
    /\ server = "sqlite" => dbUrl = "none"
    /\ poolThrows = FALSE
    /\ pgUp = TRUE
    /\ initialData \in {d \in InitialDatas : d.hasSettings}
    /\ usePostgres = FALSE
    /\ pool = "null"
    /\ sqliteDb = "null"
    /\ sessionBackend = "none"
    /\ bootPc = "off"
    /\ bootK = 0
    /\ serving = FALSE
    /\ schema = FALSE
    /\ snap = NoSnap
    /\ QuietRequests
    /\ settings = NoSettings
    /\ settingRows = RowsOf(settings)
    /\ written = settings
    /\ kind \in Kinds
    /\ table = <<>>
    /\ populated = FALSE
    /\ posts = {}
    /\ nextId = 1
    /\ sessStore = [s \in Sids |-> FALSE]

NextSeed ==
    \/ ProcessStart
    \/ BootSchema
    \/ BootCountPosts
    \/ BootSeedPost
    \/ BootCountRows
    \/ BootSeedRow
    \/ BootCountFaqs
    \/ BootSeedFaq
    \/ BootCountSettings
    \/ BootSeedSetting
    \/ BootResetPassword
    \/ Serve
    \/ ProcessStop
    \/ RequestBeforeSchema
    \/ \E body \in SeedBodies : DualBulkDelete(1, body)
    \/ DualBulkInsert(1)
    \/ DualBulkRespond(1)
    \/ \E body \in SeedBodies : DualBulkSync(1, body)
    \/ \E body \in SeedBodies : SqliteBulk(1, body)
    \/ \E e \in Entry : AddCategory(e)
    \/ \E i \in 0..MaxItems : DeleteCategory(i)

SpecSeed == InitSeed /\ [][NextSeed]_vars

(***************************************************************************)
(* Two bulk-replace requests at the same time (dual build)                 *)
(***************************************************************************)
RaceBodies == {<<[name |-> "A", ord |-> 1]>>,
               <<[name |-> "B", ord |-> 2]>>,
               <<[name |-> "A", ord |-> 1], [name |-> "B", ord |-> 2]>>}

NextRace ==
    \/ \E h \in Handlers, body \in RaceBodies : DualBulkDelete(h, body)
    \/ \E h \in Handlers : DualBulkInsert(h)
    \/ \E h \in Handlers : DualBulkRespond(h)
    \/ \E h \in Handlers, body \in RaceBodies : DualBulkSync(h, body)

SpecRace == InitGuard /\ [][NextRace]_vars

(***************************************************************************)
(* Admin dashboard: the category editor                                    *)
(***************************************************************************)
MaxAdds == 2             \* categories added in one behaviour
MaxEditing == 2          \* longest list the editor holds
MaxFetches == 1          \* answers of GET /api/categories under way at a time
ClientIdBase == 100      \* Date.now() when the page opens: above every id of the store

\* Date.now(), the wall clock in milliseconds: two calls in one millisecond
\* answer the same number.
DateNow == {ClientIdBase, ClientIdBase + 1}

\* The categories as GET /api/categories answers them, each row with its
\* id (the ids of a table are distinct; the position stands for them).
Fetched(rows) ==
    [i \in 1..Len(rows) |-> [id |-> i, name |-> rows[i].name, ord |-> rows[i].ord]]

\* What the bulk handler reads of a posted list: c.name, c.display_order.
PostedRows(list) ==
    [i \in 1..Len(list) |-> [name |-> list[i].name, ord |-> list[i].ord]]

\* The display_order values of a list are pairwise distinct.
DistinctDisplayOrder(list) ==
    \A i, j \in 1..Len(list) : i # j => list[i].ord # list[j].ord

\* What a step of the browser leaves alone.
ClientFrame ==
    /\ lastGet' = NoGet
    /\ resp' = NoResp
    /\ UNCHANGED <<confVars, procVars, settings, kind, posts, nextId, sessStore,
                   timeVars, reqVars, snap, authed, pwSet, contentVars,
                   settingRows, written, q, linkVars, table, populated, req>>

\* What a step of the server on a save request leaves alone.
SaveFrame ==
    /\ lastGet' = NoGet
    /\ resp' = NoResp
    /\ populated' = (populated \/ Len(table') > 0)
    /\ UNCHANGED <<confVars, procVars, settings, kind, posts, nextId, sessStore,
                   timeVars, reqVars, snap, authed, pwSet, contentVars,
                   settingRows, written, q, linkVars,
                   fetching, editingCategories, addCount, req>>

\* fetchData, the request: the server handles GET /api/categories (the
\* SELECT runs on the table as it is at that moment) and the answer is on
\* its way. fetchData runs when the page opens and as onRefresh after every
\* save of the dashboard, whatever else is under way.
FetchCategories ==
    /\ serving /\ StoreUp
    /\ Cardinality(fetching) < MaxFetches
    /\ \E rows \in SelectOrdered(table) : fetching' = fetching \cup {Fetched(rows)}
    /\ UNCHANGED <<editingCategories, addCount, saveReq>>
    /\ ClientFrame

\* fetchData, the answer: setCategories(categoriesData), and with the render
\* that follows, useEffect(() => setEditingCategories(categories),
\* [categories]): the editor takes the answered list, whatever was edited
\* or sent since the request. The answers of two calls of fetchData arrive
\* in either order.
SetCategories ==
    /\ \E data \in fetching :
          /\ fetching' = fetching \ {data}
          /\ editingCategories' = data
    /\ UNCHANGED <<addCount, saveReq>>
    /\ ClientFrame

\* handleAddCategory: nothing for an empty name; else the new category is
\* appended with id = Date.now() and display_order =
\* editingCategories.length + 1.
HandleAddCategory(newCategoryName) ==
    /\ addCount < MaxAdds
    /\ Len(editingCategories) < MaxEditing
    /\ IF newCategoryName = ""
       THEN UNCHANGED <<editingCategories, addCount>>
       ELSE /\ \E id \in DateNow :
                  editingCategories' = Append(editingCategories,
                      [id |-> id, name |-> newCategoryName,
                       ord |-> Len(editingCategories) + 1])
            /\ addCount' = addCount + 1
    /\ UNCHANGED <<fetching, saveReq>>
    /\ ClientFrame

\* handleDeleteCategory: editingCategories.filter(c => c.id !== id), every
\* category of that id.
HandleDeleteCategory(id) ==
    /\ \E i \in 1..Len(editingCategories) : editingCategories[i].id = id
    /\ editingCategories' = SelectSeq(editingCategories, LAMBDA c : c.id # id)
    /\ UNCHANGED <<fetching, addCount, saveReq>>
    /\ ClientFrame

\* handleSaveCategories, up to the fetch: the list as it is goes out as the
\* body of POST /api/categories/bulk, whether or not an earlier save is
\* still under way. The request takes the unused slot of the lowest number:
\* a behaviour sends as many saves as there are slots.
HandleSaveCategories ==
    /\ \E h \in Handlers : saveReq[h].st = "none"
    /\ LET h == CHOOSE g \in Handlers :
                   /\ saveReq[g].st = "none"
                   /\ \A f \in Handlers : saveReq[f].st = "none" => g <= f
       IN  saveReq' = [saveReq EXCEPT ![h] =
                          [st |-> "sent", body |-> editingCategories, k |-> 0]]
    /\ UNCHANGED <<fetching, editingCategories, addCount>>
    /\ ClientFrame

\* Dual build on Postgres, the save request h: await query("DELETE FROM
\* categories"); the handler is suspended at every await.
SaveDelete(h) ==
    /\ server = "dual" /\ usePostgres /\ serving /\ StoreUp
    /\ saveReq[h].st = "sent"
    /\ table' = <<>>
    /\ saveReq' = [saveReq EXCEPT ![h].st = "run"]
    /\ SaveFrame

\* Dual build on Postgres: the next INSERT of the loop; a failing one makes
\* the handler reject, and the request gets no answer.
SaveInsert(h) ==
    /\ server = "dual" /\ usePostgres /\ serving /\ StoreUp
    /\ saveReq[h].st = "run"
    /\ saveReq[h].k < Len(saveReq[h].body)
    /\ LET e == PostedRows(saveReq[h].body)[saveReq[h].k + 1] IN
         IF InsertOk(kind, table, e)
         THEN /\ table' = Append(table, e)
              /\ saveReq' = [saveReq EXCEPT ![h].k = @ + 1]
         ELSE /\ table' = table
              /\ saveReq' = [saveReq EXCEPT ![h].st = "lost"]
    /\ SaveFrame

\* Dual build on Postgres: the loop is over, res.json({ success: true }).
SaveRespond(h) ==
    /\ server = "dual" /\ usePostgres /\ serving
    /\ saveReq[h].st = "run"
    /\ saveReq[h].k = Len(saveReq[h].body)
    /\ saveReq' = [saveReq EXCEPT ![h].st = "ok"]
    /\ UNCHANGED table
    /\ SaveFrame

\* On SQLite the handler of the save request h runs in one turn. Dual
\* build: the DELETE, then the inserts up to the first failing one, which
\* leaves the request without an answer. Synchronous build: the DELETE,
\* then the inserts in db.transaction(), rolled back by a failing one, which
\* the catch answers with 500.
SaveSync(h) ==
    /\ ~usePostgres /\ serving /\ StoreUp
    /\ saveReq[h].st = "sent"
    /\ LET r == RunInserts(kind, <<>>, PostedRows(saveReq[h].body), 0) IN
         /\ table' = IF server = "sqlite" /\ ~r.ok THEN <<>> ELSE r.rows
         /\ saveReq' = [saveReq EXCEPT ![h].st =
                           IF r.ok THEN "ok"
                           ELSE IF server = "sqlite" THEN "failed" ELSE "lost",
                                        ![h].k = r.done]
    /\ SaveFrame

\* handleSaveCategories, after the fetch: on res.ok the alert and
\* onRefresh() (fetchData, above); on another answer the alert; a request
\* without an answer ends in the catch when the connection is given up.
\* The slot is not used again.
SaveAnswered(h) ==
    /\ saveReq[h].st \in {"ok", "failed", "lost"}
    /\ saveReq' = [saveReq EXCEPT ![h] = [IdleSave EXCEPT !.st = "done"]]
    /\ UNCHANGED <<fetching, editingCategories, addCount>>
    /\ ClientFrame

\* The categories table when the dashboard opens: empty, or the seed rows.
DashboardTables == {<<>>, SubSeq(SeedRows, 1, 1), SeedRows}

\* The names the administrator types into the editor.
NewCategoryNames == {"A", ""}

\* A serving process whose categories have pairwise distinct display_order,
\* and the dashboard as it opens on them.
InitDashboard ==
    /\ Started
    /\ handlers = [h \in Handlers |-> Idle]
    /\ logins = [s \in Sids |-> NoLogin]
    /\ lastGet = NoGet
    /\ resp = NoResp
    /\ authed = [s \in Sids |-> FALSE]
    /\ sessExpire = [s \in Sids |-> 0]
    /\ sessCreated = [s \in Sids |-> 0]
    /\ pwSet = Absent
    /\ faqs = {}
    /\ nextFaqId = 1
    /\ clock = 0
    /\ q = NoQuery
    /\ contactLinks = NoLinksRow
    /\ savedLinks = NoLinks
    /\ posting = NoPost
    /\ settings = Upsert(NoSettings, "adminPassword", DefaultPassword)
    /\ settingRows = RowsOf(settings)
    /\ written = settings
    /\ kind = "categories"
    /\ table \in {t \in DashboardTables :
                     ValidTable(kind, t) /\ DistinctDisplayOrder(t)}
    /\ populated = (Len(table) > 0)
    /\ posts = {}
    /\ nextId = 1
    /\ sessStore = [s \in Sids |-> FALSE]
    /\ fetching = {}
    /\ editingCategories \in {Fetched(rows) : rows \in SelectOrdered(table)}
    /\ addCount = 0
    /\ saveReq = NoSave
    /\ req = NoReq

NextDashboard ==
    \/ FetchCategories
    \/ SetCategories
    \/ \E n \in NewCategoryNames : HandleAddCategory(n)
    \/ \E id \in 1..MaxEditing \cup DateNow :
          HandleDeleteCategory(id)
    \/ HandleSaveCategories
    \/ \E h \in Handlers : SaveDelete(h)
    \/ \E h \in Handlers : SaveInsert(h)
    \/ \E h \in Handlers : SaveRespond(h)
    \/ \E h \in Handlers : SaveSync(h)
    \/ \E h \in Handlers : SaveAnswered(h)

SpecDashboard == InitDashboard /\ [][NextDashboard]_vars

(***************************************************************************)
(* Claims about bulk replace                                               *)
(***************************************************************************)
\* The whole of body can be inserted into an empty table.
Insertable(kd, body) == RunInserts(kd, <<>>, body, 0).ok

\* Two sequences hold the same rows, each as often.
SameRows(a, b) ==
    /\ Len(a) = Len(b)
    /\ \E f \in Injections(Len(a)) : \A i \in 1..Len(a) : a[i] = b[f[i]]

\* The order column grows strictly along the sequence.
Ascending(body) == \A i, j \in 1..Len(body) : i < j => body[i].ord < body[j].ord

DistinctNames(body) ==
    \A i, j \in 1..Len(body) : i # j => body[i].name # body[j].name

\* C1: when an insert of a bulk replace fails, the table is exactly what it
\* was before the request (the claim as stated; the code violates it).
C1_FailedReplaceKeepsPrior ==
    \A h \in Handlers :
        (handlers[h].st = "failed" /\ ~handlers[h].mixed)
            => table = handlers[h].prior

\* C2: in the dual build, a GET handled while a bulk replace of the same
\* collection is in flight answers with the complete old collection or the
\* complete new one (the claim as stated; the code violates it).
C2_ReaderSeesOldOrNew ==
    (server = "dual" /\ lastGet.phase = "during"
        /\ Insertable(kind, handlers[lastGet.h].body))
    => \/ SameRows(lastGet.rows, handlers[lastGet.h].prior)
       \/ SameRows(lastGet.rows, handlers[lastGet.h].body)

DistinctOrders(body) ==
    \A i, j \in 1..Len(body) : i # j => body[i].ord # body[j].ord

\* C30: whatever was added and deleted in the category editor, the list
\* that 'save' sends to POST /api/categories/bulk has pairwise distinct
\* display_order values (the claim as stated; an add after a delete reuses
\* the display_order of a category that is still in the list).
C30_SavedOrdersDistinct ==
    \A h \in Handlers : saveReq[h].st # "none" => DistinctDisplayOrder(saveReq[h].body)

\* C29: in the synchronous SQLite server no request is ever left between
\* its DELETE and its last INSERT when another handler runs: no GET is
\* answered while a bulk replace is in flight, and a GET that follows a
\* replace answered with success holds that request's collection in full.
C29_SyncReplaceNotSeenHalfway ==
    server = "sqlite" =>
        /\ \A h \in Handlers : handlers[h].st # "run"
        /\ lastGet.phase # "during"
        /\ lastGet.phase = "after"
              => SameRows(lastGet.rows, handlers[lastGet.h].body)

\* C29 witness: the synchronous server replaced a non-empty collection by
\* two rows and the next GET was answered with both.
C29_Witness ==
    /\ server = "sqlite"
    /\ lastGet.phase = "after"
    /\ Len(handlers[lastGet.h].prior) > 0
    /\ Len(handlers[lastGet.h].body) = 2
    /\ Len(lastGet.rows) = 2

\* C27: when a bulk-replace request is answered with success while another
\* one, handled at the same time, has been answered with success too, the
\* table holds the collection of one of the two in full (the claim as
\* stated; on Postgres the statements of the two handlers interleave).
C27_ConcurrentReplacesDoNotMix ==
    [][\A h \in Handlers : \A g \in Handlers \ {h} :
          (/\ handlers[h].st = "run" /\ handlers'[h].st = "ok"
           /\ handlers[g].st = "ok")
              => \/ SameRows(table', handlers[h].body)
                 \/ SameRows(table', handlers[g].body)]_vars

\* C9 as stated: after a successful bulk replace of categories with distinct
\* names, GET answers the submitted entries in the order of submission.
\* (Stated here for submissions whose display_order values are pairwise
\* distinct, where the answer does not depend on how the backend orders
\* rows with equal keys.)
C9_GetInSubmissionOrder ==
    (kind = "categories" /\ lastGet.phase = "after"
        /\ DistinctNames(handlers[lastGet.h].body)
        /\ DistinctOrders(handlers[lastGet.h].body))
    => lastGet.rows = handlers[lastGet.h].body

\* C9 as amended: after a successful bulk replace of categories with
\* distinct names, GET answers exactly the submitted entries (none of the
\* prior rows) in ascending display_order; that is the order of submission
\* when the submitted display_order values are strictly ascending.
C9_GetInDisplayOrder ==
    (kind = "categories" /\ lastGet.phase = "after"
        /\ DistinctNames(handlers[lastGet.h].body))
    => /\ SameRows(lastGet.rows, handlers[lastGet.h].body)
       /\ \A i, j \in 1..Len(lastGet.rows) :
             i < j => lastGet.rows[i].ord <= lastGet.rows[j].ord
       /\ Ascending(handlers[lastGet.h].body)
             => lastGet.rows = handlers[lastGet.h].body

\* C9 witness: a GET after a successful replace of a non-empty table by two
\* categories submitted in descending display_order.
C9_Witness ==
    /\ kind = "categories" /\ lastGet.phase = "after"
    /\ handlers[lastGet.h].prior # <<>>
    /\ Len(handlers[lastGet.h].body) = 2
    /\ handlers[lastGet.h].body[1].ord > handlers[lastGet.h].body[2].ord
    /\ Len(lastGet.rows) = 2

(***************************************************************************)
(* Claims about sessions and login                                         *)
(***************************************************************************)
\* C3: GET /api/admin/check answers success exactly when the session has had
\* a login answered success that no logout or expiry of that session has
\* followed (the claim as stated; the code violates it).
C3_CheckIffLoggedIn ==
    resp.op = "check" => (resp.status = 200 <=> authed[resp.sid])

\* C4: when a login is answered success the session store holds the
\* session's isAdmin flag, so the next request on the session finds it
\* Authenticated (the claim as stated; the code violates it).
C4_SuccessOnlyAfterPersisted ==
    (resp.op = "login" /\ resp.status = 200) => sessStore[resp.sid]

\* The password the stored setting asks for: its value, or the default when
\* there is no adminPassword row.
StoredPassword(seen) == IF seen = Absent THEN DefaultPassword ELSE seen

\* C5: a login whose password differs from the stored admin password is
\* answered 401 and changes neither the session store nor any session.
C5_WrongPasswordChangesNothing ==
    [][(resp'.op = "login" /\ resp'.pw # StoredPassword(resp'.seen))
          => /\ resp'.status = 401
             /\ sessStore' = sessStore
             /\ logins' = logins
             /\ authed' = authed]_vars

\* C5 witness: a wrong password was answered 401 on an Anonymous session.
C5_Witness ==
    /\ resp.op = "login" /\ resp.status = 401
    /\ resp.pw # StoredPassword(resp.seen)
    /\ ~sessStore[resp.sid]
    /\ \E s \in Sids : sessStore[s]

\* C6: a login is answered success exactly when its password equals the
\* adminPassword the settings held when the request read them (the default
\* when there is no row), and the first login after POST /api/settings set
\* adminPassword is answered success exactly when its password is the value
\* set; a login that the session store failed to save (answered 500 by the
\* synchronous build) aside (the claim as stated; bootstrap's reset of the
\* row violates it).
C6_NextLoginAcceptsNewPassword ==
    (resp.op = "login" /\ resp.status # 500) =>
        /\ resp.status = 200 <=> resp.pw = StoredPassword(resp.seen)
        /\ resp.lastSet # Absent => (resp.status = 200 <=> resp.pw = resp.lastSet)

(***************************************************************************)
(* Claims about process start                                              *)
(***************************************************************************)
\* C7: bootstrap run at process start against a store whose tables are
\* already populated leaves every row unchanged, an adminPassword changed
\* since the first run included (the claim as stated; the code violates it).
C7_BootstrapKeepsPopulatedStore ==
    (/\ bootPc = "done"
     /\ snap.taken
     /\ SettingsCount(snap.settings) > 0
     /\ Len(snap.table) > 0)
        => (settings = snap.settings /\ table = snap.table)

\* C26: bootstrap inserts seed rows into a collection table only if the
\* table has never held a row: a table that was populated and then emptied
\* through the API is not seeded again by a later bootstrap (the claim as
\* stated; bootstrap seeds whenever it counts no rows).
C26_SeedOnlyOnFirstRun ==
    [][((ProcessStart \/ (BootSeedRow /\ bootK = 0)) /\ table' # table)
          => ~populated]_vars

\* C28: in the dual build a request handler runs its store statements only
\* once bootstrap is over, so that no request finds a table missing and
\* none writes a table between the statements of schema creation and
\* seeding (the claim as stated; initDb() is not awaited and requests are
\* served while it runs).
C28_RequestsWaitForBootstrap ==
    /\ resp.op # "noTable"
    /\ (server = "dual" /\ \E h \in Handlers : handlers[h].st = "run")
           => bootPc \in {"done", "failed"}

\* C8: when DATABASE_URL selects Postgres and the pool cannot be built or
\* the server cannot be reached (schema creation fails), the process neither
\* opens SQLite nor serves requests (the claim as stated; the code violates
\* it).
C8_PostgresFailureStopsStartup ==
    (/\ server = "dual" /\ dbUrl = "postgres"
     /\ bootPc # "off"
     /\ poolThrows \/ bootPc = "failed")
        => (sqliteDb = "null" /\ ~serving)

(***************************************************************************)
(* Claims about query()                                                    *)
(***************************************************************************)
\* C10: under either backend POST /api/posts is answered with the identifier
\* of the row it inserted (the claim as stated; on Postgres the code
\* violates it).
C10_InsertAnswersNewId ==
    resp.op = "createPost" =>
        /\ resp.status = 200
        /\ resp.id = nextId - 1
        /\ resp.id \in PostIds

(***************************************************************************)
(* Claims about settings                                                   *)
(***************************************************************************)
\* C11: after any sequence of upserts, under either backend, the settings
\* table holds exactly one row for every key written and none for any other
\* key, the row holds the value last written, and GET /api/settings maps the
\* key to that value.
C11_OneRowPerKeyLastValue ==
    /\ \A k \in SettingKeys :
          IF written[k] = Absent
          THEN KeyRows(settingRows, k) = {}
          ELSE /\ Cardinality(KeyRows(settingRows, k)) = 1
               /\ \A i \in KeyRows(settingRows, k) : settingRows[i].value = written[k]
    /\ SettingsMap(settingRows) = settings
    /\ resp.op = "getSettings" => resp.body = written

\* C11 witness: on Postgres a key that held v1 was written again with v2
\* while another key has a row.
C11_Witness ==
    /\ usePostgres
    /\ resp.op = "upsert" /\ resp.seen = "v1"
    /\ \E k \in SettingKeys : resp.body[k] = "v2"
    /\ Len(settingRows) = 2

\* C12: POST /api/settings leaves every settings key that its body omits
\* with the value the key had: no statement of the request, whether the
\* request is handled in one turn or suspended between its statements,
\* changes such a key.
C12_OmittedKeysKept ==
    [][resp'.op \in {"postSettings", "upsertSettings"} =>
          \A k \in SettingKeys :
              resp'.body[k] = Undefined => settings'[k] = settings[k]]_vars

\* C12 witness: a body with adminPassword only was posted while siteName
\* and contactInfo had values, which they still have.
C12_Witness ==
    /\ resp.op = "postSettings"
    /\ resp.body["adminPassword"] = "pw1"
    /\ resp.body["siteName"] = Undefined /\ resp.body["contactInfo"] = Undefined
    /\ settings["siteName"] = "S1" /\ settings["contactInfo"] = "C1"

\* C21 (as stated): POST /api/settings leaves the stored value of a key
\* untouched when the body provides that key with the empty string, for
\* each of siteName, primaryColor, adminPassword, logoUrl and contactInfo:
\* no statement of such a request changes the key.
C21_EmptyStringLeavesKeyUntouched ==
    [][resp'.op \in {"postSettings", "upsertSettings"} =>
          \A k \in SettingKeys :
              resp'.body[k] = "" => settings'[k] = settings[k]]_vars

\* The keys of a body that the amended claim says are upserted.
C21_Provided(body) ==
    {k \in SettingKeys : \/ k = "contactInfo" /\ body[k] # Undefined
                         \/ k # "contactInfo" /\ body[k] \notin {Undefined, ""}}

\* C21 (amended): siteName, primaryColor, adminPassword and logoUrl are
\* upserted exactly when the provided value is not the empty string, and
\* contactInfo whenever the body provides it: an empty contactInfo replaces
\* the stored value by the empty string. Each statement of the request
\* writes the body's value of one of these keys and leaves the others, and
\* when the request is answered every one of these keys has been written.
C21_UpsertedWhenTruthyOrContactInfoDefined ==
    [][resp'.op \in {"postSettings", "upsertSettings"} =>
          /\ (resp'.stmt \cap SettingKeys) \subseteq C21_Provided(resp'.body)
          /\ \A k \in SettingKeys :
                settings'[k] = IF k \in resp'.stmt THEN resp'.body[k] ELSE settings[k]
          /\ resp'.op = "postSettings" =>
                (resp'.keys \cap SettingKeys) = C21_Provided(resp'.body)]_vars

\* C21 witness: a request with an empty siteName and an empty contactInfo
\* was answered; the site name is still the one stored before, the contact
\* information is now the empty string.
C21_Witness ==
    /\ resp.op = "postSettings"
    /\ resp.body["siteName"] = "" /\ resp.body["contactInfo"] = ""
    /\ settings["siteName"] = "S1" /\ settings["contactInfo"] = ""

\* C22: the contact-link list that fetchData holds after GET /api/settings
\* and JSON.parse equals the list last saved through POST /api/settings,
\* element for element and in the same order, the empty list included.
C22_LinksRoundTrip ==
    (resp.op = "fetchData" /\ savedLinks.given) =>
        /\ resp.err = ""
        /\ resp.list = savedLinks.list

\* C22 witness: a list of two different links was saved and read back.
C22_Witness ==
    /\ resp.op = "fetchData"
    /\ savedLinks.given
    /\ Len(savedLinks.list) = 2
    /\ savedLinks.list[1] # savedLinks.list[2]
    /\ Len(resp.list) = 2

\* C23: once more than the time-to-live has passed since the login that
\* made a session Authenticated, GET /api/admin/check on that session is
\* answered 401, whatever requests were made on it in the meantime (the
\* claim as stated; requests on the session keep moving its expiry).
C23_SessionEndsAfterTtlFromCreation ==
    (/\ resp.op = "check"
     /\ authed[resp.sid]
     /\ clock > sessCreated[resp.sid] + SessionTtl) => resp.status = 401

\* C24: a session's isAdmin flag is raised only by a login request made on
\* that session with the correct password, whatever other requests carry;
\* a login or a logout on one session leaves every other session's row as
\* it was.
C24_FlagSetOnlyByOwnLogin ==
    [][\A s \in Sids :
          /\ (sessStore'[s] /\ ~sessStore[s]) =>
                 /\ resp'.op = "login" /\ resp'.sid = s /\ resp'.status = 200
                 /\ resp'.pw = StoredPassword(resp'.seen)
          /\ (resp'.op \in {"login", "logout"} /\ resp'.sid # s) =>
                 /\ sessStore'[s] = sessStore[s]
                 /\ sessExpire'[s] = sessExpire[s]]_vars

\* C24 witness: a login with the stored password was answered on s1, whose
\* row now holds the flag, while s2, where a wrong password was posted or
\* nothing at all, holds none.
C24_Witness ==
    /\ resp.op = "login" /\ resp.sid = "s1" /\ resp.status = 200
    /\ resp.pw = StoredPassword(resp.seen)
    /\ sessStore["s1"] /\ ~sessStore["s2"]

\* C25: a request to a mutating route is handled without its session being
\* consulted. Whatever session the request was made on, Anonymous (no
\* cookie, or the cookie of a session the store does not hold) or
\* Authenticated, the handler's step is the step of the route (its effect on
\* the store and its answer are those the route has for the store and the
\* body it was given) and the answer never refuses the request (401, 403).
C25_MutatingRoutesIgnoreSession ==
    [][\A h \in Handlers :
          (req[h].pc = "loaded" /\ req'[h] # req[h])
             => /\ MutatingRoutes(h)
                /\ resp'.status \notin {401, 403}
                /\ req'[h].status \notin {401, 403}]_vars

\* C25 witness: two requests have changed the store, the collection and
\* the site name, and were answered with success, one made on a session
\* that holds isAdmin, the other with the cookie of a session the store does
\* not hold.
C25_Witness ==
    /\ \A h \in Handlers : req[h].pc = "done" /\ req[h].status = 200
    /\ \E h \in Handlers : req[h].isAdmin /\ Valid(req[h].sid)
    /\ \E h \in Handlers : ~req[h].isAdmin /\ req[h].sid = "s2" /\ ~sessStore["s2"]
    /\ table # <<>>
    /\ settings["siteName"] = "S1"

(***************************************************************************)
(* Claims about posts and FAQs                                             *)
(***************************************************************************)
\* C13: a request whose store call fails is answered with a server error
\* (500) (the claim as stated; the dual build's async handlers violate it).
C13_StoreFailureAnswered500 ==
    resp.err = "store" => resp.status = 500

\* C16: a GET /api/faqs that follows the creation of a FAQ lists that FAQ
\* first, however soon the FAQ before it was created (the claim as stated,
\* for the dual build, which never updates a FAQ; rows created within the
\* same second violate it).
C16_NewFaqListedFirst ==
    (/\ server = "dual"
     /\ resp.op = "getFaqs"
     /\ nextFaqId - 1 \in FaqIds)
        => resp.list[1].id = nextFaqId - 1

\* C17: PUT /api/posts/:id and PUT /api/faqs/:id on an existing row leave the
\* row with the submitted fields and with updated_at equal to the time of
\* the update, not earlier than before (the claim as stated; the dual build
\* has no PUT /api/faqs/:id and violates it).
C17_UpdateRefreshesUpdatedAt ==
    [][/\ (resp'.op = "putPost" /\ resp'.id \in PostIds /\ resp'.row.title # Null)
            => \E r \in posts' :
                  /\ r = PostRow(resp'.id, resp'.row.title, clock')
                  /\ r.updated_at >= RowOf(posts, resp'.id).updated_at
       /\ (resp'.op = "putFaq" /\ resp'.id \in FaqIds)
            => \E r \in faqs' :
                  /\ r = FaqRow(resp'.id, resp'.row.question, clock')
                  /\ r.updated_at >= RowOf(faqs, resp'.id).updated_at]_vars

\* C18: POST /api/posts with its fields answers an id, the row of that id
\* holds the submitted fields and the time of creation, and GET
\* /api/posts/:id answers the row of the id (the claim as stated; on
\* Postgres no id is answered).
C18_CreatedPostReadsBack ==
    /\ (resp.op = "createPost" /\ resp.row.title # Null)
          => /\ resp.status = 200
             /\ resp.id \in PostIds
             /\ RowOf(posts, resp.id) = PostRow(resp.id, resp.row.title, clock)
    /\ (resp.op = "getPost" /\ resp.id \in PostIds)
          => (resp.status = 200 /\ resp.row = RowOf(posts, resp.id))

\* C19: GET /api/posts/:id and GET /api/faqs/:id with an id that matches no
\* row are answered 404 (the claim as stated; the synchronous build
\* violates it).
C19_MissingRowAnswered404 ==
    /\ (resp.op = "getPost" /\ resp.id \notin PostIds) => resp.status = 404
    /\ (resp.op = "getFaq" /\ resp.id \notin FaqIds) => resp.status = 404

\* C20: POST /api/posts/delete and POST /api/faqs/delete with an id that
\* matches no row answer success with changes 0 and leave the table as it
\* was (the claim as stated; the synchronous build answers 400 for id 0).
C20_DeleteOfMissingRowSucceeds ==
    [][/\ (resp'.op = "deletePost" /\ resp'.id \notin PostIds)
            => (resp'.status = 200 /\ resp'.changes = 0 /\ posts' = posts)
       /\ (resp'.op = "deleteFaq" /\ resp'.id \notin FaqIds)
            => (resp'.status = 200 /\ resp'.changes = 0 /\ faqs' = faqs)]_vars

(***************************************************************************)
(* Claims about backend selection and query()                              *)
(***************************************************************************)
\* C14: while the process runs usePostgres keeps its value, exactly one of
\* the pool and the SQLite handle is set, query() goes to the backend that
\* is set and the session store is bound to that backend.
C14_BackendFixedAfterStart ==
    /\ [](bootPc # "off" =>
             /\ (pool # "null") # (sqliteDb # "null")
             /\ usePostgres = (pool # "null")
             /\ QueryBackend = (IF pool # "null" THEN "postgres" ELSE "sqlite")
             /\ sessionBackend = QueryBackend)
    /\ [][(bootPc # "off" /\ bootPc' # "off") => usePostgres' = usePostgres]_vars

\* C14 witness: Postgres was configured, the pool's constructor threw, and
\* the process serves on SQLite.
C14_Witness ==
    /\ dbUrl = "postgres" /\ poolThrows
    /\ bootPc = "done" /\ serving
    /\ sessionBackend = "sqlite"

\* C15: on Postgres the k-th '?' of the statement is sent as '$k', every
\* other token stays in its place, the bind values are passed unchanged,
\* and so every placeholder is bound to the value SQLite binds it to.
C15_PlaceholdersKeepOrder ==
    q.backend = "postgres" =>
        /\ Len(q.sent) = Len(q.text)
        /\ \A i \in 1..Len(q.text) :
              IF q.text[i] = QMark
              THEN q.sent[i] = Dollar(CountQMarks(q.text, i))
              ELSE q.sent[i].kind = "text"
        /\ q.sentParams = q.params
        /\ BoundValues(q.sent, q.sentParams) = BoundValues(q.text, q.params)

\* C15 witness: a statement with two placeholders apart and different
\* values went to Postgres.
C15_Witness ==
    /\ q.backend = "postgres"
    /\ q.text = <<Text, QMark, Text, QMark>>
    /\ q.params = <<"a", "b">>

====
